---- MODULE Spec2Model ----
(***************************************************************************)
(* Binary SOM (cerno): the stylesheet analyser, the constant pool, the     *)
(* binary emitter and the loader, as state machines.                       *)
(*                                                                         *)
(* A string is the sequence of its UTF-16 code units, as in JavaScript;    *)
(* null, undefined and the empty string are all the empty sequence (every  *)
(* place of the code that is modelled here tests them with || or !).       *)
(* A byte buffer is a sequence of numbers in 0..255.                       *)
(***************************************************************************)
EXTENDS Integers, Sequences, FiniteSets, TLC

VARIABLES
    css,        \* parsed.rules: the rules parseCSS hands to analyseCSS
    pc,         \* position in the pipeline
    nodes,      \* analyseCSS: the ComponentNode array, in sourceOrder
    manifests,  \* analyseCSS: the manifests array
    pool,       \* a PoolBuilder: its _strings map and _finalised flag
    otherPool,  \* a second PoolBuilder, fed independently of the first
    binary,     \* assembleBinary: the .som file
    loader,     \* SOMLoader: its parsed maps and lazy cache
    result,     \* what the last getStatic / getDynamic returned
    heap,       \* the record objects _parseDynamicRecord has created
    reader,     \* a PoolReader: its _table
    hashes,     \* the selector last hashed, and its hash by each implementation
    intact,     \* the binary as the compiler wrote it, once the file is damaged
    parser,     \* a source text and what parseCSS made of it
    manager,    \* a SubscriptionManager, its page and its animation frames
    runtime,    \* a SOMRuntime and the document head it writes to
    fallback,   \* what emitFallbackCss returned for the analysis
    plugin      \* a binarySomPlugin instance and the bundle of its build

\* What the compiler pipeline never touches
clientVars == <<reader, hashes, intact, parser, manager, runtime, fallback, plugin>>

vars == <<css, pc, nodes, manifests, pool, otherPool, binary, loader, result,
          heap, clientVars>>

\* What the analyser never touches
codecVars == <<pool, otherPool, binary, loader, result, heap>>

Null == <<>>

----------------------------------------------------------------------------
(* Sequences and bytes *)

SeqToSet(s) == {s[i] : i \in DOMAIN s}

Min2(a, b) == IF a <= b THEN a ELSE b

\* A value under a name: Body of the value. A value read more than once is
\* bound this way, as a const of the code is.
With(value, Body(_)) == Body(value)

\* Buffer.concat: the sequences of ss joined in order, by halves
RECURSIVE Concat(_)
Concat(ss) ==
    IF ss = <<>> THEN <<>>
    ELSE IF Len(ss) = 1 THEN ss[1]
    ELSE LET half == Len(ss) \div 2
         IN  Concat(SubSeq(ss, 1, half)) \o Concat(SubSeq(ss, half + 1, Len(ss)))

\* Array.prototype.sort is stable: equal keys keep their order.
StableSort(s, Less(_, _)) ==
    LET n == Len(s)
        rank(i) == Cardinality({j \in 1..n :
                       Less(s[j], s[i]) \/ (~Less(s[i], s[j]) /\ j < i)}) + 1
    IN  [k \in 1..n |-> s[CHOOSE i \in 1..n : rank(i) = k]]

\* Lexicographic order of two byte sequences, shorter first on a common prefix.
BytesLess(a, b) ==
    \E i \in 1..(Min2(Len(a), Len(b)) + 1) :
        /\ \A j \in 1..(i - 1) : a[j] = b[j]
        /\ \/ i > Len(a) /\ i <= Len(b)
           \/ i <= Len(a) /\ i <= Len(b) /\ a[i] < b[i]

IsHighSurrogate(c) == c >= 55296 /\ c <= 56319

IsLowSurrogate(c) == c >= 56320 /\ c <= 57343

\* The bytes the code unit at k gives: a surrogate pair gives its four bytes
\* at the high half and none at the low half; a lone surrogate gives U+FFFD.
Utf8At(s, k) ==
    LET c == s[k]
    IN  IF c < 128 THEN <<c>>
        ELSE IF c < 2048 THEN <<192 + (c \div 64), 128 + (c % 64)>>
        ELSE IF IsHighSurrogate(c) /\ k < Len(s) /\ IsLowSurrogate(s[k + 1])
        THEN LET cp == 65536 + (c - 55296) * 1024 + (s[k + 1] - 56320)
             IN  <<240 + (cp \div 262144), 128 + ((cp \div 4096) % 64),
                   128 + ((cp \div 64) % 64), 128 + (cp % 64)>>
        ELSE IF IsLowSurrogate(c) /\ k > 1 /\ IsHighSurrogate(s[k - 1]) THEN <<>>
        ELSE IF c >= 55296 /\ c <= 57343 THEN <<239, 191, 189>>
        ELSE <<224 + (c \div 4096), 128 + ((c \div 64) % 64), 128 + (c % 64)>>

\* Buffer.from(str, 'utf8') of a string kept as its UTF-16 code units
Utf8(s) == Concat([k \in DOMAIN s |-> Utf8At(s, k)])

\* a ^ b on the low n bits
RECURSIVE BitXor(_, _, _)
BitXor(a, b, n) ==
    IF n = 0 THEN 0
    ELSE (((a % 2) + (b % 2)) % 2) + 2 * BitXor(a \div 2, b \div 2, n - 1)

\* An unsigned 32-bit number is kept as its two 16-bit halves.
U32(hi, lo) == [hi |-> hi, lo |-> lo]

U32Less(x, y) == x.hi < y.hi \/ (x.hi = y.hi /\ x.lo < y.lo)

\* Math.imul(h, 0x01000193) >>> 0, with 0x01000193 = 2^24 + 403
FnvMul(h) ==
    LET low == h.lo * 403
    IN  U32((h.hi * 403 + (low \div 65536) + (h.lo % 256) * 256) % 65536,
            low % 65536)

\* One step per byte: xor into the low byte, then the multiplication; h is a
\* uint32 at every step.
RECURSIVE FnvFold(_, _)
FnvFold(h, bytes) ==
    IF bytes = <<>> \/ h.hi > 65535 THEN h
    ELSE FnvFold(FnvMul(U32(h.hi, (h.lo \div 256) * 256
                                  + BitXor(h.lo % 256, Head(bytes), 8))),
                 Tail(bytes))

\* 0x811c9dc5
FNV_OFFSET_BASIS == U32(33052, 40389)

\* emitter.fnv1a32: FNV-1a over the UTF-8 bytes, offset basis 0x811c9dc5
fnv1a32(str) == FnvFold(FNV_OFFSET_BASIS, Utf8(str))

\* One step per code unit: str.charCodeAt(i) is xored into the low 16 bits,
\* then the multiplication.
RECURSIVE FnvFoldCharCodes(_, _)
FnvFoldCharCodes(h, str) ==
    IF str = <<>> \/ h.hi > 65535 THEN h
    ELSE FnvFoldCharCodes(FnvMul(U32(h.hi, BitXor(h.lo, Head(str), 16))), Tail(str))

\* browserLoader.fnv1a32: the loop runs over str.length and charCodeAt
browserFnv1a32(str) == FnvFoldCharCodes(FNV_OFFSET_BASIS, str)

\* SubscriptionManager.hash: the same loop over selector.charCodeAt
SubscriptionManagerHash(selector) == FnvFoldCharCodes(FNV_OFFSET_BASIS, selector)

U8(n) == <<n % 256>>
U16LE(n) == <<n % 256, (n \div 256) % 256>>
U24LE(n) == <<n % 256, (n \div 256) % 256, (n \div 65536) % 256>>
U32LE(x) == U16LE(x.lo) \o U16LE(x.hi)
\* writeUInt32LE of a small count or size (below 2^16 within the bounds)
U32LEn(n) == U16LE(n % 65536) \o U16LE(n \div 65536)

----------------------------------------------------------------------------
(* types.ts *)

STATIC == "BIND_STATIC"
DETERMINISTIC == "BIND_DETERMINISTIC"
NONDETERMINISTIC == "BIND_NONDETERMINISTIC"

BindingRank(c) == IF c = STATIC THEN 0 ELSE IF c = DETERMINISTIC THEN 1 ELSE 2

\* maxBinding without the comparison
maxBindingKeepsLeft(a, b) == a

maxBinding(a, b) == IF BindingRank(a) >= BindingRank(b) THEN a ELSE b

isDynamicBinding(binding) == binding # STATIC

\* A value is kept lexed: raw is its trimmed text, and the other fields are
\* what the regular expressions of valueAnalyser.ts read off that text.
\*   fn        /^\s*([\w-]+)\s*\(/            the leading function name, or ""
\*   fns       /([a-z-]+)\s*\(/g              every function name
\*   hasVar    /\bvar\s*\(/
\*   hasEnv    /\benv\s*\(/
\*   intrinsic one of INTRINSIC_KEYWORDS as a word
\*   units     /(-?(?:\d+|\d*\.\d+))\s*(%|[a-z]+)/gi   the units, in order
\*   varRefs   /var\(\s*(--[\w-]+)/gi         the referenced tokens, in order
\*   single    /^var\(\s*(--[\w-]+)\s*(?:,\s*([\s\S]+))?\)$/  the token name (Null
\*             when the value is not one var()) and the fallback, if any
\*   sizeWord  /\b(inline-size|size)\b/
Value(raw, fn, fns, units, varRefs) ==
    [raw |-> raw, fn |-> fn, fns |-> fns, units |-> units, varRefs |-> varRefs,
     hasVar |-> "var" \in fns, hasEnv |-> "env" \in fns,
     intrinsic |-> FALSE, sizeWord |-> FALSE,
     single |-> [tokenName |-> Null, fallback |-> <<>>]]

RUNTIME_UNIT_DEP_TYPES(unit) ==
    IF unit = "%" THEN "PARENT_SIZE"
    ELSE IF unit \in {"vw", "vh", "vi", "vb", "vmin", "vmax", "svw", "svh", "svi",
                      "svb", "lvw", "lvh", "lvi", "lvb", "dvw", "dvh", "dvi", "dvb"}
         THEN "VIEWPORT"
    ELSE IF unit \in {"em", "rem", "ex", "rex", "ch", "rch", "cap", "rcap", "ic",
                      "ric", "lh", "rlh"}
         THEN "FONT_METRICS"
    ELSE IF unit \in {"cqw", "cqh", "cqi", "cqb", "cqmin", "cqmax"}
         THEN "CONTAINER_SIZE"
    ELSE ""

OPAQUE_COLOR_FUNCTIONS ==
    {"rgb", "rgba", "hsl", "hsla", "hwb", "lab", "lch", "oklch", "oklab", "color",
     "color-mix", "light-dark"}

\* /:(nth-child|...|first-child|...|has|empty)\b/ on the selector: the model's
\* selectors carry at most the pseudo-class :first-child, which starts ":f".
selectorHasStructuralPseudo(selector) ==
    \E i \in 1..(Len(selector) - 1) : selector[i] = 58 /\ selector[i + 1] = 102

----------------------------------------------------------------------------
(* valueAnalyser.ts *)

ToLower(s) == [i \in DOMAIN s |-> IF s[i] >= 65 /\ s[i] <= 90 THEN s[i] + 32 ELSE s[i]]

ToUpper(s) == [i \in DOMAIN s |-> IF s[i] >= 97 /\ s[i] <= 122 THEN s[i] - 32 ELSE s[i]]

StartsWith(s, prefix) ==
    Len(s) >= Len(prefix) /\ SubSeq(s, 1, Len(prefix)) = prefix

IsHex(s) ==
    \A i \in DOMAIN s : \/ s[i] >= 48 /\ s[i] <= 57
                        \/ s[i] >= 65 /\ s[i] <= 70
                        \/ s[i] >= 97 /\ s[i] <= 102

RECURSIVE DoubleEach(_)
DoubleEach(s) == IF s = <<>> THEN <<>> ELSE <<Head(s), Head(s)>> \o DoubleEach(Tail(s))

\* Null when the value is no hex colour
normalizeHexColor(v) ==
    IF v = <<>> \/ Head(v) # 35 THEN Null
    ELSE LET hex == Tail(v)
         IN  IF ~IsHex(hex) THEN Null
             ELSE IF Len(hex) = 3 THEN <<35>> \o ToUpper(DoubleEach(hex)) \o <<70, 70>>
             ELSE IF Len(hex) = 4 THEN <<35>> \o ToUpper(DoubleEach(hex))
             ELSE IF Len(hex) = 6 THEN <<35>> \o ToUpper(hex) \o <<70, 70>>
             ELSE IF Len(hex) = 8 THEN <<35>> \o ToUpper(hex)
             ELSE Null

\* NAMED_COLORS: red, blue, green, black, white, transparent
NAMED_COLORS(lower) ==
    IF lower = <<114, 101, 100>> THEN <<35, 70, 70, 48, 48, 48, 48, 70, 70>>
    ELSE IF lower = <<98, 108, 117, 101>> THEN <<35, 48, 48, 48, 48, 70, 70, 70, 70>>
    ELSE IF lower = <<103, 114, 101, 101, 110>> THEN <<35, 48, 48, 56, 48, 48, 48, 70, 70>>
    ELSE IF lower = <<98, 108, 97, 99, 107>> THEN <<35, 48, 48, 48, 48, 48, 48, 70, 70>>
    ELSE IF lower = <<119, 104, 105, 116, 101>> THEN <<35, 70, 70, 70, 70, 70, 70, 70, 70>>
    ELSE IF lower = <<116, 114, 97, 110, 115, 112, 97, 114, 101, 110, 116>>
         THEN <<35, 48, 48, 48, 48, 48, 48, 48, 48>>
    ELSE Null

\* The raw texts of the model hold no runs of whitespace to collapse.
normalizeSimpleValue(raw) ==
    IF normalizeHexColor(raw) # Null THEN normalizeHexColor(raw)
    ELSE IF NAMED_COLORS(ToLower(raw)) # Null THEN NAMED_COLORS(ToLower(raw))
    ELSE raw

Warning(type, msg, nodeId, tokenName, referencedToken, propertyName) ==
    [type |-> type, msg |-> msg, nodeId |-> nodeId, tokenName |-> tokenName,
     referencedToken |-> referencedToken, propertyName |-> propertyName]

\* Keeps the first of the elements that share a key.
RECURSIVE DedupBy(_, _, _, _)
DedupBy(s, Key(_), seen, acc) ==
    IF s = <<>> THEN acc
    ELSE IF Key(Head(s)) \in seen THEN DedupBy(Tail(s), Key, seen, acc)
    ELSE DedupBy(Tail(s), Key, seen \cup {Key(Head(s))}, Append(acc, Head(s)))

DetectKey(dep) == <<dep.property, dep.depType, dep.expression>>

Dep(property, depType, expression) ==
    [property |-> property, depType |-> depType, expression |-> expression]

RECURSIVE UnitDeps(_, _, _)
UnitDeps(prop, units, raw) ==
    IF units = <<>> THEN <<>>
    ELSE (IF RUNTIME_UNIT_DEP_TYPES(Head(units)) # ""
          THEN <<Dep(prop, RUNTIME_UNIT_DEP_TYPES(Head(units)), raw)>>
          ELSE <<>>) \o UnitDeps(prop, Tail(units), raw)

detectRuntimeDependencies(prop, value, includeThemeDeps) ==
    LET theme == IF includeThemeDeps /\ value.hasVar
                 THEN <<Dep(prop, "THEME", value.raw)>> ELSE <<>>
        deps == theme
                \o (IF value.hasEnv THEN <<Dep(prop, "ENV", value.raw)>> ELSE <<>>)
                \o (IF value.intrinsic
                    THEN <<Dep(prop, "INTRINSIC_SIZE", value.raw)>> ELSE <<>>)
                \o UnitDeps(prop, value.units, value.raw)
        hasRuntimeMath == value.fns \cap {"calc", "min", "max", "clamp"} # {}
        hasAbsoluteOperand == "px" \in SeqToSet(value.units)
        hasRuntimeOperand ==
            \E i \in DOMAIN deps : deps[i].depType \notin {"THEME", "ENV"}
    IN  IF value.fn \in OPAQUE_COLOR_FUNCTIONS
        THEN [deps |-> theme, warnings |-> <<>>]
        ELSE [deps |-> DedupBy(deps, DetectKey, {}, <<>>),
              warnings |->
                  IF hasRuntimeMath /\ hasAbsoluteOperand /\ hasRuntimeOperand
                  THEN <<Warning("MIXED_OPERANDS", "mixed", Null, Null, Null, prop)>>
                  ELSE <<>>]

collectRuntimeDepTypes(property, value) ==
    LET r == detectRuntimeDependencies(property, value, FALSE)
    IN  [depTypes |-> DedupBy([i \in DOMAIN r.deps |-> r.deps[i].depType],
                              LAMBDA t : t, {"THEME"}, <<>>),
         warnings |-> r.warnings]

RECURSIVE resolveTokenChain(_, _, _)
resolveTokenChain(tokenName, tokenDefs, visited) ==
    IF tokenName \in visited
    THEN [state |-> "circular", depTypes |-> <<>>,
          warnings |-> <<Warning("DEP_WARNING", "cycle-resolving", Null, tokenName,
                                 Null, Null)>>]
    ELSE IF tokenName \notin DOMAIN tokenDefs
    THEN [state |-> "unknown", depTypes |-> <<>>,
          warnings |-> <<Warning("UNDEFINED_TOKEN", "undefined", Null, tokenName,
                                 Null, Null)>>]
    ELSE LET v == tokenDefs[tokenName]
             maybeVar == v.single
         IN  IF maybeVar.tokenName # Null
             THEN IF maybeVar.tokenName \in DOMAIN tokenDefs
                  THEN resolveTokenChain(maybeVar.tokenName, tokenDefs,
                                         visited \cup {tokenName})
                  ELSE IF maybeVar.fallback # <<>>
                  THEN LET fb == collectRuntimeDepTypes(tokenName, maybeVar.fallback[1])
                       IN  [state |-> IF fb.depTypes # <<>> THEN "runtime-dependent"
                                      ELSE "absolute",
                            depTypes |-> fb.depTypes,
                            warnings |->
                                <<Warning("UNRESOLVED_TOKEN", "missing-fallback", Null,
                                          tokenName, maybeVar.tokenName, Null)>>
                                \o fb.warnings]
                  ELSE [state |-> "unknown", depTypes |-> <<>>,
                        warnings |->
                            <<Warning("UNRESOLVED_TOKEN", "missing", Null, tokenName,
                                      maybeVar.tokenName, Null)>>]
             ELSE LET leaf == collectRuntimeDepTypes(tokenName, v)
                  IN  [state |-> IF leaf.depTypes # <<>> THEN "runtime-dependent"
                                 ELSE "absolute",
                       depTypes |-> leaf.depTypes,
                       warnings |-> leaf.warnings]

\* normalizeWarningObject: nodeId and propertyName default to the context's
normalizeWarningObject(w, nodeId, propertyName) ==
    [w EXCEPT !.nodeId = IF @ # Null THEN @ ELSE nodeId,
              !.propertyName = IF @ # Null THEN @ ELSE propertyName]

\* "var(" + tokenName + ")"
VarExpression(tokenName) == <<118, 97, 114, 40>> \o tokenName \o <<41>>

\* The loop of analyseValue over the var() references of the value
RECURSIVE VarRefDetection(_, _, _, _, _)
VarRefDetection(varRefs, tokenDefs, componentId, propLower, detection) ==
    IF varRefs = <<>> THEN detection
    ELSE With(resolveTokenChain(Head(varRefs), tokenDefs, {}), LAMBDA chain :
         With([i \in DOMAIN chain.warnings |->
                  normalizeWarningObject(chain.warnings[i], componentId, propLower)],
              LAMBDA chainWarnings :
         LET tokenName == Head(varRefs)
             next ==
                 IF chain.state = "circular"
                 THEN [deps |-> detection.deps,
                       warnings |-> detection.warnings \o chainWarnings
                           \o <<Warning("DEP_WARNING", "cycle-static", componentId,
                                        tokenName, Null, propLower)>>]
                 ELSE IF chain.state = "runtime-dependent"
                 THEN [deps |-> detection.deps
                           \o [i \in DOMAIN chain.depTypes |->
                                  Dep(propLower, chain.depTypes[i],
                                      VarExpression(tokenName))],
                       warnings |-> detection.warnings \o chainWarnings]
                 ELSE [deps |-> detection.deps,
                       warnings |-> detection.warnings \o chainWarnings]
         IN  VarRefDetection(Tail(varRefs), tokenDefs, componentId, propLower, next)))

DepEntry(componentId, property, depType, expression, containerId) ==
    [componentId |-> componentId, property |-> property, depType |-> depType,
     expression |-> expression, containerId |-> containerId]

\* propLower.startsWith("-webkit-") || "-moz-" || "-ms-"
IsVendorPrefixed(propLower) ==
    \/ StartsWith(propLower, <<45, 119, 101, 98, 107, 105, 116, 45>>)
    \/ StartsWith(propLower, <<45, 109, 111, 122, 45>>)
    \/ StartsWith(propLower, <<45, 109, 115, 45>>)

\* propLower === "portal_id" || propLower === "portal-id"
IsPortalProperty(propLower) ==
    propLower \in {<<112, 111, 114, 116, 97, 108, 95, 105, 100>>,
                   <<112, 111, 114, 116, 97, 108, 45, 105, 100>>}

\* propLower === "container-type"
IsContainerTypeProperty(propLower) ==
    propLower = <<99, 111, 110, 116, 97, 105, 110, 101, 114, 45, 116, 121, 112, 101>>

analyseValue(componentId, property, value, tokenDefs) ==
    LET propLower == ToLower(property)
        signals ==
            [portalTarget |-> IF IsPortalProperty(propLower) THEN value.raw ELSE Null,
             containerBoundary |-> IsContainerTypeProperty(propLower) /\ value.sizeWord]
    IN  IF IsVendorPrefixed(propLower)
        THEN [normalizedValue |-> normalizeSimpleValue(value.raw), deps |-> <<>>,
              classification |-> STATIC, signals |-> signals, warnings |-> <<>>]
        ELSE With(VarRefDetection(value.varRefs, tokenDefs, componentId, propLower,
                                  detectRuntimeDependencies(propLower, value, TRUE)),
                  LAMBDA detection :
             With(DedupBy(detection.deps, DetectKey, {}, <<>>), LAMBDA finalDeps :
             LET depEntries ==
                     [i \in DOMAIN finalDeps |->
                         DepEntry(componentId, finalDeps[i].property,
                                  finalDeps[i].depType, finalDeps[i].expression, Null)]
                 uniqueWarnings ==
                     DedupBy([i \in DOMAIN detection.warnings |->
                                 normalizeWarningObject(detection.warnings[i],
                                                        componentId, propLower)],
                             LAMBDA w : w, {}, <<>>)
                 hasRuntimeDep ==
                     \E i \in DOMAIN finalDeps : finalDeps[i].depType # "THEME"
             IN  [normalizedValue |-> normalizeSimpleValue(value.raw),
                  deps |-> depEntries,
                  classification |-> IF hasRuntimeDep THEN DETERMINISTIC ELSE STATIC,
                  signals |-> signals, warnings |-> uniqueWarnings]))

----------------------------------------------------------------------------
(* cssparser: the selector helpers the analyser calls *)

\* The positions of the descendant combinators of a normalised selector: the
\* spaces outside parentheses (tokeniseSelectorSegments tracks the depth).
CombinatorPositions(selector) ==
    {i \in DOMAIN selector :
        /\ selector[i] = 32
        /\ Cardinality({j \in 1..i : selector[j] = 40})
             = Cardinality({j \in 1..i : selector[j] = 41})}

\* Drops the trailing simple segment and its combinator; Null when there is
\* one segment only.
extractParentSelector(selector) ==
    LET cuts == CombinatorPositions(selector)
    IN  IF cuts = {} THEN Null
        ELSE SubSeq(selector, 1, (CHOOSE i \in cuts : \A j \in cuts : j <= i) - 1)

----------------------------------------------------------------------------
(* analyser: analyseCSS *)

RECURSIVE Digits(_)
Digits(n) == IF n < 10 THEN <<48 + n>> ELSE Digits(n \div 10) \o <<48 + (n % 10)>>

\* The rightmost segment without its pseudo-classes: its last
\* [.#]?identifier token, or component_<n> when there is none.
deriveNodeId(selector, fallbackIndex) ==
    LET cuts == CombinatorPositions(selector)
        start == IF cuts = {} THEN 1
                 ELSE (CHOOSE i \in cuts : \A j \in cuts : j <= i) + 1
        rightMost == SubSeq(selector, start, Len(selector))
        colons == {i \in DOMAIN rightMost : rightMost[i] = 58}
        cleaned == IF colons = {} THEN rightMost
                   ELSE SubSeq(rightMost, 1,
                               (CHOOSE i \in colons : \A j \in colons : i <= j) - 1)
    IN  IF cleaned = <<>>
        THEN <<99, 111, 109, 112, 111, 110, 101, 110, 116, 95>> \o Digits(fallbackIndex)
        ELSE cleaned

NodeIds(ns) == {ns[i].id : i \in DOMAIN ns}

NodeById(ns, id) == ns[CHOOSE i \in DOMAIN ns : ns[i].id = id]

IndexOfSelector(ns, selector) ==
    IF \E i \in DOMAIN ns : ns[i].selector = selector
    THEN CHOOSE i \in DOMAIN ns : ns[i].selector = selector
    ELSE 0

\* [id, idCounters]: base itself when it is free, else base#<n> for the next
\* free n above the counter kept for base.
createUniqueId(base, ns, idCounters) ==
    IF base \notin NodeIds(ns) THEN [id |-> base, idCounters |-> idCounters]
    ELSE LET current == IF base \in DOMAIN idCounters THEN idCounters[base] ELSE 1
             free(n) == (base \o <<35>> \o Digits(n)) \notin NodeIds(ns)
             next == CHOOSE n \in (current + 1)..(current + 1 + Len(ns)) :
                        free(n) /\ \A m \in (current + 1)..(n - 1) : ~free(m)
         IN  [id |-> base \o <<35>> \o Digits(next),
              idCounters |-> [k \in DOMAIN idCounters \cup {base} |->
                                 IF k = base THEN next ELSE idCounters[k]]]

ComponentNode(id, selector, sourceOrder) ==
    [id |-> id, selector |-> selector, sourceOrder |-> sourceOrder,
     declarations |-> <<>>, normalizedDeclarations |-> <<>>,
     treeParentId |-> Null, treeChildren |-> {},
     portalTargetRaw |-> Null, portalTargetId |-> Null, effectiveParentId |-> Null,
     isContainerBoundary |-> FALSE,
     localClass |-> STATIC, finalClass |-> STATIC, contaminationSource |-> Null,
     deps |-> <<>>, warnings |-> <<>>, emitType |-> "ResolvedStyleBlock",
     boundaryId |-> Null,
     mediaQueriesViewport |-> {}, mediaQueriesUserPref |-> {}]

\* Object.assign on an object: a key that is there keeps its place and takes
\* the new value, a new key goes last.
RECURSIVE AssignDeclarations(_, _)
AssignDeclarations(target, source) ==
    IF source = <<>> THEN target
    ELSE LET d == Head(source)
             at == {i \in DOMAIN target : target[i].property = d.property}
         IN  AssignDeclarations(
                 IF at = {} THEN Append(target, d)
                 ELSE [i \in DOMAIN target |-> IF i \in at THEN d ELSE target[i]],
                 Tail(source))

IsCustomProperty(property) == StartsWith(property, <<45, 45>>)

\* The first loop of analyseCSS: one node per distinct selector that
\* declares a style property, its declarations merged.
RECURSIVE CreateNodes(_, _, _)
CreateNodes(rules, ns, idCounters) ==
    IF rules = <<>> THEN ns
    ELSE LET rule == Head(rules)
             styleDeclarations ==
                 SelectSeq(rule.declarations, LAMBDA d : ~IsCustomProperty(d.property))
             at == IndexOfSelector(ns, rule.selector)
             made == createUniqueId(deriveNodeId(rule.selector, Len(ns) + 1), ns,
                                    idCounters)
             withNode == IF at # 0 THEN ns
                         ELSE Append(ns, ComponentNode(made.id, rule.selector,
                                                       Len(ns) + 1))
             k == IF at # 0 THEN at ELSE Len(withNode)
             mq == rule.mediaQuery
             updated ==
                 [withNode EXCEPT
                     ![k].mediaQueriesViewport =
                         IF mq.text # Null /\ mq.viewport THEN @ \cup {mq.text} ELSE @,
                     ![k].mediaQueriesUserPref =
                         IF mq.text # Null /\ mq.userPref THEN @ \cup {mq.text} ELSE @,
                     ![k].declarations = AssignDeclarations(@, styleDeclarations)]
         IN  IF styleDeclarations = <<>> THEN CreateNodes(Tail(rules), ns, idCounters)
             ELSE CreateNodes(Tail(rules), updated,
                              IF at # 0 THEN idCounters ELSE made.idCounters)

RECURSIVE findTreeParentSelector(_, _)
findTreeParentSelector(selector, knownSelectors) ==
    LET candidate == extractParentSelector(selector)
    IN  IF candidate = Null THEN Null
        ELSE IF candidate \in knownSelectors THEN candidate
        ELSE findTreeParentSelector(candidate, knownSelectors)

\* The second loop: treeParentId and treeChildren
LinkTree(ns) ==
    LET known == {ns[i].selector : i \in DOMAIN ns}
        parentOf(i) ==
            LET sel == findTreeParentSelector(ns[i].selector, known)
            IN  IF sel = Null THEN Null ELSE ns[IndexOfSelector(ns, sel)].id
    IN  [i \in DOMAIN ns |->
            [ns[i] EXCEPT
                !.treeParentId = parentOf(i),
                !.treeChildren = {ns[j].id : j \in {j \in DOMAIN ns :
                                                     parentOf(j) = ns[i].id}}]]

NodeDepKey(dep) == <<dep.property, dep.depType, dep.expression>>

\* Array.prototype.sort() of strings: by UTF-16 code units
SortedStrings(set) ==
    LET RECURSIVE Pick(_)
        Pick(rest) ==
            IF rest = {} THEN <<>>
            ELSE LET m == CHOOSE x \in rest : \A y \in rest : x = y \/ BytesLess(x, y)
                 IN  <<m>> \o Pick(rest \ {m})
    IN  Pick(set)

\* The loop over Object.entries(node.declarations) of the classification pass
RECURSIVE ClassifyDeclarations(_, _, _, _)
ClassifyDeclarations(node, declarations, depDedup, tokenDefs) ==
    IF declarations = <<>> THEN [node |-> node, depDedup |-> depDedup]
    ELSE With(analyseValue(node.id, Head(declarations).property,
                           Head(declarations).value, tokenDefs),
              LAMBDA valueAnalysis :
         With(DedupBy(valueAnalysis.deps, NodeDepKey, depDedup, <<>>), LAMBDA fresh :
         LET d == Head(declarations)
             next ==
                 [node EXCEPT
                     !.normalizedDeclarations =
                         Append(@, [property |-> d.property,
                                    value |-> valueAnalysis.normalizedValue]),
                     !.localClass = maxBinding(@, valueAnalysis.classification),
                     !.portalTargetRaw =
                         IF valueAnalysis.signals.portalTarget # Null
                         THEN valueAnalysis.signals.portalTarget ELSE @,
                     !.isContainerBoundary =
                         @ \/ valueAnalysis.signals.containerBoundary,
                     !.warnings = @ \o valueAnalysis.warnings,
                     !.deps = @ \o fresh]
         IN  ClassifyDeclarations(next, Tail(declarations),
                                  depDedup \cup {NodeDepKey(fresh[i]) : i \in DOMAIN fresh},
                                  tokenDefs)))

\* The classification of one node: its declarations, then its media queries,
\* then the structural pseudo-classes of its selector.
\* The dependencies of the viewport queries, then of the user-preference
\* queries, are appended; either kind of query raises the class to
\* DETERMINISTIC.
ClassifyNode(node, tokenDefs) ==
    With(ClassifyDeclarations(node, node.declarations, {}, tokenDefs),
         LAMBDA declared :
    With(DedupBy([i \in DOMAIN SortedStrings(declared.node.mediaQueriesViewport) |->
                     DepEntry(declared.node.id,
                              <<95, 95, 109, 101, 100, 105, 97, 95, 95>>, "VIEWPORT",
                              SortedStrings(declared.node.mediaQueriesViewport)[i],
                              Null)],
                 NodeDepKey, declared.depDedup, <<>>),
         LAMBDA viewportDeps :
    With(DedupBy([i \in DOMAIN SortedStrings(declared.node.mediaQueriesUserPref) |->
                     DepEntry(declared.node.id,
                              SortedStrings(declared.node.mediaQueriesUserPref)[i],
                              "USER_PREF",
                              SortedStrings(declared.node.mediaQueriesUserPref)[i],
                              Null)],
                 NodeDepKey,
                 declared.depDedup
                    \cup {NodeDepKey(viewportDeps[i]) : i \in DOMAIN viewportDeps},
                 <<>>),
         LAMBDA prefDeps :
    With([declared.node EXCEPT
             !.deps = @ \o viewportDeps \o prefDeps,
             !.localClass =
                 IF declared.node.mediaQueriesViewport = {}
                    /\ declared.node.mediaQueriesUserPref = {}
                 THEN @ ELSE maxBinding(@, DETERMINISTIC)],
         LAMBDA n3 :
    IF selectorHasStructuralPseudo(n3.selector)
    THEN [n3 EXCEPT
             !.localClass = maxBinding(@, NONDETERMINISTIC),
             !.deps = Append(@, DepEntry(n3.id,
                 <<95, 95, 115, 101, 108, 101, 99, 116, 111, 114, 95, 95>>,
                 "STRUCTURE", n3.selector, Null)),
             !.warnings = Append(@, Warning("STRUCTURAL_DYNAMIC", "structural",
                 n3.id, Null, Null,
                 <<95, 95, 115, 101, 108, 101, 99, 116, 111, 114, 95, 95>>))]
    ELSE n3))))

\* The closest tree ancestor registered as a container, or Null
RECURSIVE nearestContainerId(_, _)
nearestContainerId(ns, node) ==
    IF node.treeParentId = Null THEN Null
    ELSE LET cursor == NodeById(ns, node.treeParentId)
         IN  IF cursor.isContainerBoundary THEN cursor.id
             ELSE nearestContainerId(ns, cursor)

\* Every CONTAINER_SIZE dependency takes the nearest container; one
\* MISSING_CONTAINER warning for each that has none.
BindContainers(ns) ==
    [i \in DOMAIN ns |->
        LET node == ns[i]
            container == nearestContainerId(ns, node)
            sized == SelectSeq(node.deps, LAMBDA dep : dep.depType = "CONTAINER_SIZE")
        IN  [node EXCEPT
                !.deps = [k \in DOMAIN node.deps |->
                             IF node.deps[k].depType = "CONTAINER_SIZE"
                             THEN [node.deps[k] EXCEPT !.containerId = container]
                             ELSE node.deps[k]],
                !.warnings =
                    IF container # Null THEN @
                    ELSE @ \o [k \in DOMAIN sized |->
                                  Warning("MISSING_CONTAINER", "no-container", node.id,
                                          Null, Null, sized[k].property)]]]

NodeIndex(ns, id) == CHOOSE i \in DOMAIN ns : ns[i].id = id

\* id.replace(/^[.#]/, "").toLowerCase()
IdAlias(id) ==
    ToLower(IF id # <<>> /\ Head(id) \in {46, 35} THEN Tail(id) ELSE id)

\* idAliases.get(alias): the first node created with that alias, or Null
AliasTarget(ns, alias) ==
    LET hits == {i \in DOMAIN ns : IdAlias(ns[i].id) = alias}
    IN  IF hits = {} THEN Null
        ELSE ns[CHOOSE i \in hits : \A j \in hits : i <= j].id

resolvePortalTargetId(rawTarget, ns) ==
    LET direct == rawTarget
        bySelector(sel) == ns[IndexOfSelector(ns, sel)].id
    IN  IF direct = <<>> THEN Null
        ELSE IF direct \in NodeIds(ns) THEN direct
        ELSE IF IndexOfSelector(ns, direct) # 0 THEN bySelector(direct)
        ELSE IF IndexOfSelector(ns, <<46>> \o direct) # 0
        THEN bySelector(<<46>> \o direct)
        ELSE IF IndexOfSelector(ns, <<35>> \o direct) # 0
        THEN bySelector(<<35>> \o direct)
        ELSE AliasTarget(ns, ToLower(direct))

\* The portal pass: portalTargetId, the PORTAL_MISSING warning and
\* effectiveParentId = portalTargetId || treeParentId || null.
ResolvePortals(ns) ==
    [i \in DOMAIN ns |->
        LET node == ns[i]
            targetId == IF node.portalTargetRaw # Null
                        THEN resolvePortalTargetId(node.portalTargetRaw, ns)
                        ELSE Null
        IN  [node EXCEPT
                !.portalTargetId = targetId,
                !.warnings =
                    IF node.portalTargetRaw # Null /\ targetId = Null
                    THEN Append(@, Warning("PORTAL_MISSING", "root-fallback", node.id,
                                           Null, Null, Null))
                    ELSE @,
                !.effectiveParentId =
                    IF targetId # Null THEN targetId ELSE node.treeParentId]]

\* resolveFinalClass without the step into the effective parent
resolveFinalClassLocalOnly(st, i) ==
    [ns |-> [st.ns EXCEPT ![i].finalClass = st.ns[i].localClass],
     visiting |-> st.visiting,
     resolved |-> st.resolved \cup {st.ns[i].id},
     class |-> st.ns[i].localClass]

\* resolveFinalClass(node) with the two sets it closes over. st is
\* [ns, visiting, resolved]; the result adds the returned class.
RECURSIVE resolveFinalClass(_, _)
resolveFinalClass(st, i) ==
    LET node == st.ns[i]
    IN  IF node.id \in st.resolved
        THEN [ns |-> st.ns, visiting |-> st.visiting, resolved |-> st.resolved,
              class |-> node.finalClass]
        ELSE IF node.id \in st.visiting
        THEN [ns |-> [st.ns EXCEPT
                         ![i].warnings = Append(@, Warning("DEP_WARNING",
                             "effective-parent cycle", node.id, Null, Null, Null)),
                         ![i].finalClass = node.localClass,
                         ![i].contaminationSource = Null],
              visiting |-> st.visiting,
              resolved |-> st.resolved \cup {node.id},
              class |-> node.localClass]
        ELSE LET entered == [ns |-> st.ns, visiting |-> st.visiting \cup {node.id},
                             resolved |-> st.resolved]
                 hasParent == /\ node.effectiveParentId # Null
                              /\ node.effectiveParentId \in NodeIds(st.ns)
                 pi == NodeIndex(st.ns, node.effectiveParentId)
                 after == IF hasParent THEN resolveFinalClass(entered, pi)
                          ELSE [ns |-> entered.ns, visiting |-> entered.visiting,
                                resolved |-> entered.resolved, class |-> STATIC]
                 parent == after.ns[pi]
                 contaminated ==
                     hasParent /\ BindingRank(after.class) > BindingRank(node.localClass)
                 finalClass == IF contaminated THEN after.class ELSE node.localClass
                 contaminationSource ==
                     IF ~contaminated THEN Null
                     ELSE IF parent.contaminationSource # Null
                     THEN parent.contaminationSource ELSE parent.id
             IN  [ns |-> [after.ns EXCEPT
                             ![i].finalClass = finalClass,
                             ![i].contaminationSource = contaminationSource],
                  visiting |-> after.visiting \ {node.id},
                  resolved |-> after.resolved \cup {node.id},
                  class |-> finalClass]

\* for (const node of nodes) resolveFinalClass(node)
RECURSIVE ResolveAllFinal(_, _)
ResolveAllFinal(st, i) ==
    IF i > Len(st.ns) THEN st.ns
    ELSE LET r == resolveFinalClass(st, i)
         IN  ResolveAllFinal([ns |-> r.ns, visiting |-> r.visiting,
                              resolved |-> r.resolved], i + 1)

\* resolveBoundaryId(node). The function has no guard against a chain of
\* dynamic effective parents that returns to a node whose call is still
\* open: the recursion then never ends and the engine raises RangeError.
\* active is the set of open calls; overflow reports that outcome.
RECURSIVE resolveBoundaryId(_, _, _)
resolveBoundaryId(ns, i, active) ==
    LET node == ns[i]
        hasParent == /\ node.effectiveParentId # Null
                     /\ node.effectiveParentId \in NodeIds(ns)
        pi == NodeIndex(ns, node.effectiveParentId)
    IN  IF ~isDynamicBinding(node.finalClass)
        THEN [ns |-> ns, id |-> Null, overflow |-> FALSE]
        ELSE IF node.boundaryId # Null
        THEN [ns |-> ns, id |-> node.boundaryId, overflow |-> FALSE]
        ELSE IF ~hasParent \/ ~isDynamicBinding(ns[pi].finalClass)
        THEN [ns |-> [ns EXCEPT ![i].boundaryId = node.id], id |-> node.id,
              overflow |-> FALSE]
        ELSE IF pi \in active \cup {i}
        THEN [ns |-> ns, id |-> Null, overflow |-> TRUE]
        ELSE LET r == resolveBoundaryId(ns, pi, active \cup {i})
             IN  IF r.overflow THEN r
                 ELSE [ns |-> [r.ns EXCEPT ![i].boundaryId = r.id], id |-> r.id,
                       overflow |-> FALSE]

\* for (const node of nodes) resolveBoundaryId(node)
RECURSIVE ResolveAllBoundaries(_, _)
ResolveAllBoundaries(ns, i) ==
    IF i > Len(ns) THEN [ns |-> ns, overflow |-> FALSE]
    ELSE LET r == resolveBoundaryId(ns, i, {})
         IN  IF r.overflow THEN [ns |-> ns, overflow |-> TRUE]
             ELSE ResolveAllBoundaries(r.ns, i + 1)

\* collectBoundarySubgraph without "if (child.portalTargetRaw) continue"
RECURSIVE SubgraphReachThroughPortals(_, _, _)
SubgraphReachThroughPortals(ns, rootId, visited) ==
    LET children ==
            {c \in UNION {NodeById(ns, m).treeChildren : m \in visited} :
                LET child == NodeById(ns, c)
                IN  /\ isDynamicBinding(child.finalClass)
                    /\ child.boundaryId = rootId}
    IN  IF children \subseteq visited THEN visited
        ELSE SubgraphReachThroughPortals(ns, rootId, visited \cup children)

\* The members collectBoundarySubgraph reaches from rootNode: tree children
\* that declare no portal, are dynamic and carry the root's boundaryId.
RECURSIVE SubgraphReach(_, _, _)
SubgraphReach(ns, rootId, visited) ==
    LET children ==
            {c \in UNION {NodeById(ns, m).treeChildren : m \in visited} :
                LET child == NodeById(ns, c)
                IN  /\ child.portalTargetRaw = Null
                    /\ isDynamicBinding(child.finalClass)
                    /\ child.boundaryId = rootId}
    IN  IF children \subseteq visited THEN visited
        ELSE SubgraphReach(ns, rootId, visited \cup children)

\* members.sort((a, b) => a.sourceOrder - b.sourceOrder)
collectBoundarySubgraph(ns, rootNode) ==
    LET reached == SubgraphReach(ns, rootNode.id, {rootNode.id})
    IN  SelectSeq(ns, LAMBDA n : n.id \in reached)

ManifestEntry(member, dep) ==
    [componentId |-> member.id, property |-> dep.property, depType |-> dep.depType,
     expression |-> dep.expression, containerId |-> dep.containerId]

ManifestDepKey(entry) ==
    <<entry.componentId, entry.property, entry.depType, entry.containerId>>

\* The manifest loop without "if (dep.depType === DepType.THEME) continue"
MemberEntriesWithTheme(members) ==
    Concat([m \in DOMAIN members |->
               [k \in DOMAIN members[m].deps |->
                   ManifestEntry(members[m], members[m].deps[k])]])

\* The non-THEME dependencies of the members, in member order
RECURSIVE MemberEntries(_)
MemberEntries(members) ==
    IF members = <<>> THEN <<>>
    ELSE LET member == Head(members)
             own == SelectSeq(member.deps, LAMBDA dep : dep.depType # "THEME")
         IN  [k \in DOMAIN own |-> ManifestEntry(member, own[k])]
             \o MemberEntries(Tail(members))

BuildManifest(ns, node) ==
    LET members == collectBoundarySubgraph(ns, node)
        entries == DedupBy(MemberEntries(members), ManifestDepKey, {}, <<>>)
    IN  [componentId |-> node.id,
         depCount |-> Len(entries),
         flags |-> (IF \E k \in DOMAIN members : members[k].portalTargetRaw # Null
                    THEN {"PORTAL_DEPENDENCY"} ELSE {})
                   \cup (IF entries = <<>> THEN {"CONTAMINATION_ONLY"} ELSE {}),
         subgraphIds |-> [k \in DOMAIN members |-> members[k].id],
         entries |-> entries]

\* The manifest loop without "if (node.boundaryId !== node.id) continue"
ManifestForEveryDynamicRule(ns, i) ==
    LET dynamic == SelectSeq(ns, LAMBDA n : isDynamicBinding(n.finalClass))
    IN  [k \in DOMAIN dynamic |-> BuildManifest(ns, dynamic[k])]

\* One manifest for every dynamic node that is its own boundary, in
\* source order
RECURSIVE BuildManifestsFrom(_, _)
BuildManifestsFrom(ns, i) ==
    IF i > Len(ns) THEN <<>>
    ELSE (IF ns[i].boundaryId = ns[i].id /\ isDynamicBinding(ns[i].finalClass)
          THEN <<BuildManifest(ns, ns[i])>> ELSE <<>>)
         \o BuildManifestsFrom(ns, i + 1)

AssignEmitTypes(ns) ==
    [i \in DOMAIN ns |->
        [ns[i] EXCEPT !.emitType =
            IF ~isDynamicBinding(ns[i].finalClass) THEN "ResolvedStyleBlock"
            ELSE IF ns[i].boundaryId = ns[i].id
            THEN "DynamicBoundaryMarker+RuleSet+DependencyManifest"
            ELSE "RuleSet"]]

\* parseCSS: rawTokens holds the custom properties of every rule, the last
\* declaration of a name winning.
rawTokens(rules) ==
    LET all == Concat([i \in DOMAIN rules |->
                          SelectSeq(rules[i].declarations,
                                    LAMBDA d : IsCustomProperty(d.property))])
        names == {all[k].property : k \in DOMAIN all}
    IN  [name \in names |->
            all[CHOOSE k \in DOMAIN all :
                   /\ all[k].property = name
                   /\ \A m \in DOMAIN all : all[m].property = name => m <= k].value]

\* analyseCSS up to the portal pass: nodes, tree links, local classes,
\* containers, effective parents
GraphOf(rules) ==
    With(LinkTree(CreateNodes(rules, <<>>, <<>>)), LAMBDA created :
    With(rawTokens(rules), LAMBDA tokens :
    ResolvePortals(BindContainers(
        [i \in DOMAIN created |-> ClassifyNode(created[i], tokens)]))))

----------------------------------------------------------------------------
(* constantPool.ts: PoolBuilder *)

NULL_REF == 16777215

\* new PoolBuilder(): _strings is a Map, kept here as its entries in
\* insertion order; -1 is the index of a string until finalise().
NewPool == [strings |-> <<>>, finalised |-> FALSE]

PoolHas(p, str) == \E i \in DOMAIN p.strings : p.strings[i].str = str

\* intern(str) as it changes the builder; null and "" are not stored.
intern(p, str) ==
    IF str = <<>> \/ PoolHas(p, str) THEN p
    ELSE [p EXCEPT !.strings = Append(@, [str |-> str, idx |-> -1])]

\* A run of intern calls, one per string of strs in order: every string the
\* builder does not hold yet is appended at its first occurrence.
internAll(p, strs) ==
    LET first(k) == /\ intern(p, strs[k]) # p
                    /\ \A m \in 1..(k - 1) : strs[m] # strs[k]
        kept == SelectSeq([k \in DOMAIN strs |-> [at |-> k, str |-> strs[k]]],
                          LAMBDA e : first(e.at))
    IN  [p EXCEPT !.strings = @ \o [k \in DOMAIN kept |->
                                       [str |-> kept[k].str, idx |-> -1]]]

\* The comparator of finalise(): the UTF-8 bytes, then the byte length
PoolEntryLess(a, b) == BytesLess(a.bytes, b.bytes)

\* finalise(): the keys sorted by their UTF-8 bytes take the indices 0, 1, ...
\* A second call changes nothing.
finalise(p) ==
    IF p.finalised THEN p
    ELSE LET keys == [i \in DOMAIN p.strings |->
                         [str |-> p.strings[i].str, bytes |-> Utf8(p.strings[i].str)]]
             sorted == StableSort(keys, PoolEntryLess)
             indexOf(str) == (CHOOSE k \in DOMAIN sorted : sorted[k].str = str) - 1
         IN  [strings |-> [i \in DOMAIN p.strings |->
                              [str |-> p.strings[i].str,
                               idx |-> indexOf(p.strings[i].str)]],
              finalised |-> TRUE]

\* ref(str) on a finalised builder
ref(p, str) ==
    IF str = <<>> \/ ~PoolHas(p, str) THEN NULL_REF
    ELSE p.strings[CHOOSE i \in DOMAIN p.strings : p.strings[i].str = str].idx

IdxLess(a, b) == a.idx < b.idx

\* entries(): the map's entries sorted by index
entries(p) == StableSort(p.strings, IdxLess)

\* The bytes serialise() returns; it finalises a builder that is not: the
\* 16-byte header, then for every entry its index (u24), its byte length
\* (u16) and its UTF-8 bytes.
serialise(p) ==
    LET sorted == entries(finalise(p))
        encoded == [i \in DOMAIN sorted |->
                       LET e == sorted[i]
                       IN  U24LE(e.idx) \o U16LE(Len(Utf8(e.str))) \o Utf8(e.str)]
        data == Concat(encoded)
    IN  <<83, 79, 77, 80, 1, 0, 0, 0>> \o U32LEn(Len(encoded)) \o U32LEn(Len(data))
        \o data

\* COMMON_CSS_PROPERTIES, the vocabulary interned into every pool. The list
\* of 92 names is the same for every stylesheet; the model keeps six of them.
COMMON_CSS_PROPERTIES ==
    << <<99, 111, 108, 111, 114>>, <<99, 111, 110, 116, 97, 105, 110, 101, 114, 45, 116, 121, 112, 101>>, <<100, 105, 115, 112, 108, 97, 121>>, <<102, 111, 110, 116, 45, 115, 105, 122, 101>>, <<119, 105, 100, 116, 104>>,
       <<122, 45, 105, 110, 100, 101, 120>> >>

\* The strings buildPoolFromAnalysis interns for one node, in its order
NodeStrings(node) ==
    <<node.selector>>
    \o Concat([i \in DOMAIN node.declarations |->
                  <<node.declarations[i].property, node.declarations[i].value.raw>>])
    \o Concat([i \in DOMAIN node.normalizedDeclarations |->
                  <<node.normalizedDeclarations[i].property,
                    node.normalizedDeclarations[i].value>>])
    \o Concat([i \in DOMAIN node.deps |->
                  <<node.deps[i].property, node.deps[i].containerId>>])

\* The token names and raw values, in the order of the token table
TokenStrings(rules) ==
    LET custom == Concat([i \in DOMAIN rules |->
                     SelectSeq(rules[i].declarations,
                               LAMBDA d : IsCustomProperty(d.property))])
        firstOf(k) == \A m \in 1..(k - 1) : custom[m].property # custom[k].property
        names == SelectSeq([k \in DOMAIN custom |->
                               IF firstOf(k) THEN custom[k].property ELSE <<>>],
                           LAMBDA n : n # <<>>)
    IN  Concat([k \in DOMAIN names |-> <<names[k], rawTokens(rules)[names[k]].raw>>])

\* buildPoolFromAnalysis: every poolable string of the analysis result, then
\* the vocabulary, then finalise()
buildPoolFromAnalysis(ns, rules) ==
    finalise(internAll(NewPool,
        Concat([i \in DOMAIN ns |-> NodeStrings(ns[i])])
        \o TokenStrings(rules)
        \o COMMON_CSS_PROPERTIES))

----------------------------------------------------------------------------
(* emitter *)

DEP_TYPE_CODE(depType) ==
    IF depType = "PARENT_SIZE" THEN 1
    ELSE IF depType = "VIEWPORT" THEN 2
    ELSE IF depType = "FONT_METRICS" THEN 3
    ELSE IF depType = "ENV" THEN 4
    ELSE IF depType = "THEME" THEN 5
    ELSE IF depType = "CONTAINER_SIZE" THEN 6
    ELSE IF depType = "USER_PREF" THEN 7
    ELSE IF depType = "INTRINSIC_SIZE" THEN 8
    ELSE IF depType = "STRUCTURE" THEN 9
    ELSE 0

\* normaliseAnalysisNodes: what the emitter reads of every node. The members
\* of a manifest are turned into their selectors; subgraphRoot is the
\* selector of the node's boundary.
normaliseAnalysisNodes(ns, ms) ==
    LET selectorOf(id) == IF id \in NodeIds(ns) THEN NodeById(ns, id).selector ELSE id
        manifestsOf(id) == {k \in DOMAIN ms : ms[k].componentId = id}
        lastManifest(id) == ms[CHOOSE k \in manifestsOf(id) :
                                  \A m \in manifestsOf(id) : m <= k]
    IN  [i \in DOMAIN ns |->
            LET node == ns[i]
            IN  [selector |-> node.selector,
                 finalClass |-> node.finalClass,
                 isBoundary |-> node.boundaryId # Null /\ node.boundaryId = node.id,
                 portalTarget |-> node.portalTargetRaw,
                 depEntries |-> [k \in DOMAIN node.deps |->
                                    [propertyName |-> node.deps[k].property,
                                     depType |-> DEP_TYPE_CODE(node.deps[k].depType),
                                     containerId |-> node.deps[k].containerId]],
                 hasSubgraphIds |-> manifestsOf(node.id) # {},
                 subgraphIds |->
                     IF manifestsOf(node.id) = {} THEN <<>>
                     ELSE LET ids == lastManifest(node.id).subgraphIds
                          IN  [k \in DOMAIN ids |-> selectorOf(ids[k])],
                 subgraphRoot |-> IF node.boundaryId # Null /\ node.boundaryId \in NodeIds(ns)
                                  THEN NodeById(ns, node.boundaryId).selector
                                  ELSE Null,
                 properties |-> [k \in DOMAIN node.declarations |->
                                    [name |-> node.declarations[k].property,
                                     raw |-> node.declarations[k].value.raw]]]]

PropLess(a, b) == a.nameRef < b.nameRef

\* The property entries of a static block or a rule set: custom properties
\* and names unknown to the pool are left out, the rest is sorted by name
\* reference and cut to 255 entries.
PropertyEntries(node, p) ==
    LET kept == SelectSeq(node.properties,
                          LAMBDA prop : /\ ~IsCustomProperty(prop.name)
                                        /\ ref(p, prop.name) # NULL_REF)
        props == StableSort([k \in DOMAIN kept |->
                                [nameRef |-> ref(p, kept[k].name),
                                 valueRef |-> ref(p, kept[k].raw)]], PropLess)
    IN  SubSeq(props, 1, Min2(Len(props), 255))

PropertyBytes(props) ==
    Concat([k \in DOMAIN props |-> U24LE(props[k].nameRef) \o U24LE(props[k].valueRef)])

\* emitStaticTier: the SOMS header, then one resolved style block per node
emitStaticTier(staticNodes, p) ==
    LET records ==
            [i \in DOMAIN staticNodes |->
                LET node == staticNodes[i]
                    propSlice == PropertyEntries(node, p)
                IN  U32LE(fnv1a32(node.selector)) \o U24LE(ref(p, node.selector))
                    \o U8(Len(propSlice)) \o PropertyBytes(propSlice)]
        body == Concat(records)
    IN  <<83, 79, 77, 83>> \o U32LEn(Len(records)) \o U32LEn(Len(body)) \o body

\* bit 0: the node declares a portal; bit 1: one of its deps is a THEME dep
computeFlags(node) ==
    (IF node.portalTarget # Null THEN 1 ELSE 0)
    + (IF \E k \in DOMAIN node.depEntries : node.depEntries[k].depType = 5
       THEN 2 ELSE 0)

serialiseComponentRecord(node, p) ==
    LET head == U32LE(fnv1a32(node.selector)) \o U24LE(ref(p, node.selector))
    IN  IF node.finalClass = NONDETERMINISTIC
        THEN <<3>> \o head \o <<0>>
        ELSE IF node.isBoundary
        THEN LET subgraphIds == IF node.hasSubgraphIds THEN node.subgraphIds
                                ELSE <<node.selector>>
                 depCount == Min2(Len(node.depEntries), 255)
                 subgraphCount == Min2(Len(subgraphIds), 65535)
             IN  <<1>> \o head \o U8(depCount) \o U8(computeFlags(node))
                 \o U16LE(subgraphCount)
                 \o Concat([k \in 1..depCount |->
                      LET dep == node.depEntries[k]
                      IN  U8(dep.depType) \o U24LE(ref(p, dep.propertyName))
                          \o (IF dep.containerId # Null
                              THEN U32LE(fnv1a32(dep.containerId))
                              ELSE <<0, 0, 0, 0>>)])
                 \o Concat([k \in 1..subgraphCount |-> U32LE(fnv1a32(subgraphIds[k]))])
        ELSE LET boundarySelector == IF node.subgraphRoot # Null THEN node.subgraphRoot
                                     ELSE node.selector
                 propSlice == PropertyEntries(node, p)
             IN  <<2>> \o head \o U8(Len(propSlice))
                 \o U32LE(fnv1a32(boundarySelector)) \o PropertyBytes(propSlice)

\* The offsets of the records within the dynamic tier
RECURSIVE RecordOffsets(_, _)
RecordOffsets(records, from) ==
    IF records = <<>> THEN <<>>
    ELSE <<from>> \o RecordOffsets(Tail(records), from + Len(Head(records)))

\* emitDynamicTier: every record goes into the tier; boundary and
\* nondeterministic nodes alone get an entry of the index.
emitDynamicTier(dynamicNodes, p) ==
    LET records == [i \in DOMAIN dynamicNodes |->
                       serialiseComponentRecord(dynamicNodes[i], p)]
        offsets == RecordOffsets(records, 0)
        indexed == SelectSeq([i \in DOMAIN dynamicNodes |->
                                 [node |-> dynamicNodes[i], offset |-> offsets[i]]],
                             LAMBDA e : \/ e.node.isBoundary
                                        \/ e.node.finalClass = NONDETERMINISTIC)
        indexBuf == Concat([k \in DOMAIN indexed |->
                       U32LE(fnv1a32(indexed[k].node.selector))
                       \o U24LE(ref(p, indexed[k].node.selector))
                       \o U32LEn(indexed[k].offset)])
    IN  [indexSection |-> <<83, 79, 77, 68>> \o U32LEn(Len(indexed))
                          \o U32LEn(Len(indexBuf)) \o indexBuf,
         tierSection |-> Concat(records)]

HashLess(a, b) == U32Less(fnv1a32(a.selector), fnv1a32(b.selector))

\* emitComponentSection: the nodes split by class, each tier sorted by
\* selector hash
emitComponentSection(ns, ms, p) ==
    With(normaliseAnalysisNodes(ns, ms), LAMBDA normalised :
    With(emitDynamicTier(StableSort(SelectSeq(normalised,
                             LAMBDA n : n.finalClass # STATIC), HashLess), p),
         LAMBDA dynamic :
    [staticTier |-> emitStaticTier(StableSort(SelectSeq(normalised,
                        LAMBDA n : n.finalClass = STATIC), HashLess), p),
     dynamicIndex |-> dynamic.indexSection,
     dynamicTier |-> dynamic.tierSection]))

\* assembleBinary: the file header, the pool, the three sections
assembleBinary(poolBuf, staticTierBuf, dynamicIndexBuf, dynamicTierBuf) ==
    <<66, 83, 79, 77, 1, 0, 0, 0, 0, 0, 0, 0, 3, 0, 0, 0>>
    \o poolBuf \o staticTierBuf \o dynamicIndexBuf \o dynamicTierBuf

----------------------------------------------------------------------------
(* Reading bytes: offsets count from 0, as in Buffer *)

InBuffer(buf, pos, n) == pos >= 0 /\ pos + n <= Len(buf)

readUInt8(buf, pos) == buf[pos + 1]

readUInt16LE(buf, pos) == buf[pos + 1] + 256 * buf[pos + 2]

readUInt24LE(buf, pos) == buf[pos + 1] + 256 * buf[pos + 2] + 65536 * buf[pos + 3]

readUInt32LE(buf, pos) == U32(readUInt16LE(buf, pos + 2), readUInt16LE(buf, pos))

\* A count, size or offset read as a number. A number of 2^29 and above is
\* kept as 2^29: it lies past the end of every buffer here, as do the sums
\* the parser forms with it.
NumberOf(x) == IF x.hi >= 8192 THEN 536870912 ELSE x.hi * 65536 + x.lo

\* buf.toString('utf8', from, to): bytes that begin no well-formed sequence
\* decode to U+FFFD, code points above U+FFFF to a surrogate pair.
RECURSIVE Utf8Decode(_)
Utf8Decode(bytes) ==
    IF bytes = <<>> THEN <<>>
    ELSE LET b == Head(bytes)
             cont(k) == Len(bytes) >= k /\ bytes[k] >= 128 /\ bytes[k] < 192
             rest(n) == Utf8Decode(SubSeq(bytes, n + 1, Len(bytes)))
         IN  IF b < 128 THEN <<b>> \o rest(1)
             ELSE IF b >= 194 /\ b < 224 /\ cont(2)
             THEN <<(b - 192) * 64 + (bytes[2] - 128)>> \o rest(2)
             ELSE IF b >= 224 /\ b < 240 /\ cont(2) /\ cont(3)
                     /\ (b - 224) * 4096 + (bytes[2] - 128) * 64 >= 2048
                     /\ ~((b - 224) * 4096 + (bytes[2] - 128) * 64 >= 55296
                          /\ (b - 224) * 4096 + (bytes[2] - 128) * 64 < 57344)
             THEN <<(b - 224) * 4096 + (bytes[2] - 128) * 64 + (bytes[3] - 128)>>
                  \o rest(3)
             ELSE IF b >= 240 /\ b < 245 /\ cont(2) /\ cont(3) /\ cont(4)
                     /\ (b - 240) * 262144 + (bytes[2] - 128) * 4096 >= 65536
                     /\ (b - 240) * 262144 + (bytes[2] - 128) * 4096 < 1114112
             THEN LET cp == (b - 240) * 262144 + (bytes[2] - 128) * 4096
                            + (bytes[3] - 128) * 64 + (bytes[4] - 128) - 65536
                  IN  <<55296 + (cp \div 1024), 56320 + (cp % 1024)>> \o rest(4)
             ELSE <<65533>> \o rest(1)

----------------------------------------------------------------------------
(* constantPool.ts: PoolReader *)

\* A slot of the table that no entry has filled
Unfilled == <<-1>>

\* The loop of PoolReader._parse over the entries; ok is FALSE where the
\* code throws.
RECURSIVE ReadPoolEntries(_, _, _, _, _)
ReadPoolEntries(buf, pos, i, entryCount, table) ==
    IF i >= entryCount THEN [ok |-> TRUE, table |-> table, pos |-> pos]
    ELSE IF ~InBuffer(buf, pos, 5) THEN [ok |-> FALSE, table |-> table, pos |-> pos]
    ELSE LET idx == readUInt24LE(buf, pos)
             byteLen == readUInt16LE(buf, pos + 3)
             from == pos + 5
         IN  IF from + byteLen > Len(buf) \/ idx >= entryCount
             THEN [ok |-> FALSE, table |-> table, pos |-> pos]
             ELSE ReadPoolEntries(buf, from + byteLen, i + 1, entryCount,
                      [table EXCEPT ![idx + 1] =
                          Utf8Decode(SubSeq(buf, from + 1, from + byteLen))])

\* new PoolReader(buf, offset). Every entry takes five bytes and more, so
\* the loop over more entries than the buffer can hold throws before its end.
PoolReader(buf, offset) ==
    LET failed == [ok |-> FALSE, table |-> <<>>, totalBytes |-> 0]
    IN  IF Len(buf) < offset + 16 THEN failed
        ELSE IF SubSeq(buf, offset + 1, offset + 4) # <<83, 79, 77, 80>> THEN failed
        ELSE IF readUInt8(buf, offset + 4) # 1 THEN failed
        ELSE LET entryCount == NumberOf(readUInt32LE(buf, offset + 8))
                 dataSize == NumberOf(readUInt32LE(buf, offset + 12))
                 read == ReadPoolEntries(buf, offset + 16, 0, entryCount,
                                         [k \in 1..entryCount |-> Unfilled])
             IN  IF Len(buf) < offset + 16 + dataSize THEN failed
                 ELSE IF entryCount > Len(buf) THEN failed
                 ELSE IF ~read.ok THEN failed
                 ELSE IF \E k \in DOMAIN read.table : read.table[k] = Unfilled
                 THEN failed
                 ELSE [ok |-> TRUE, table |-> read.table, totalBytes |-> 16 + dataSize]

\* resolve(idx) throws on an index that is neither NULL_REF nor in the table
Resolvable(table, idx) == idx = NULL_REF \/ (idx >= 0 /\ idx < Len(table))

\* resolve(idx) where it returns: null for NULL_REF, else the string
resolve(table, idx) == IF idx = NULL_REF THEN Null ELSE table[idx + 1]

\* No PoolReader has been built
NoReader == [ok |-> FALSE, table |-> <<>>, totalBytes |-> 0]

----------------------------------------------------------------------------
(* loader.js: SOMLoader *)

RECURSIVE HexDigits(_)
HexDigits(n) ==
    LET digit(d) == IF d < 10 THEN 48 + d ELSE 87 + d
    IN  IF n < 16 THEN <<digit(n)>> ELSE HexDigits(n \div 16) \o <<digit(n % 16)>>

\* "<hash:" + selectorHash.toString(16) + ">"
HashLabel(h) ==
    LET low == HexDigits(h.lo)
        hex == IF h.hi = 0 THEN low
               ELSE HexDigits(h.hi) \o [k \in 1..(4 - Len(low)) |-> 48] \o low
    IN  <<60, 104, 97, 115, 104, 58>> \o hex \o <<62>>

\* The four record classes of the loader, as one shape; a field a class does
\* not have is left empty.
LoadedRecord(recordType, selectorHash, selector) ==
    [recordType |-> recordType, selectorHash |-> selectorHash, selector |-> selector,
     properties |-> <<>>, depEntries |-> <<>>, flags |-> 0, subgraphHashes |-> <<>>,
     boundaryHash |-> U32(0, 0)]

\* new Map().set(key, value) on a map kept as its entries in insertion order
MapSet(map, key, value) ==
    IF \E k \in DOMAIN map : map[k].key = key
    THEN [k \in DOMAIN map |-> IF map[k].key = key
                               THEN [key |-> key, value |-> value] ELSE map[k]]
    ELSE Append(map, [key |-> key, value |-> value])

MapHas(map, key) == \E k \in DOMAIN map : map[k].key = key

MapGet(map, key) == map[CHOOSE k \in DOMAIN map : map[k].key = key].value

\* The property entries of a record into a Map of name to value; ok is FALSE
\* where a read leaves the buffer or resolve throws.
RECURSIVE ReadProperties(_, _, _, _, _)
ReadProperties(buf, table, pos, count, properties) ==
    IF count = 0 THEN [ok |-> TRUE, properties |-> properties, pos |-> pos]
    ELSE IF ~InBuffer(buf, pos, 6)
    THEN [ok |-> FALSE, properties |-> properties, pos |-> pos]
    ELSE LET nameRef == readUInt24LE(buf, pos)
             valueRef == readUInt24LE(buf, pos + 3)
         IN  IF ~Resolvable(table, nameRef) \/ ~Resolvable(table, valueRef)
             THEN [ok |-> FALSE, properties |-> properties, pos |-> pos]
             ELSE ReadProperties(buf, table, pos + 6, count - 1,
                      IF nameRef = NULL_REF THEN properties
                      ELSE MapSet(properties, resolve(table, nameRef),
                                  resolve(table, valueRef)))

\* The selector of a record: the pool string, or the hash label for NULL_REF
SelectorOf(table, selectorRef, selectorHash) ==
    IF selectorRef = NULL_REF THEN HashLabel(selectorHash)
    ELSE resolve(table, selectorRef)

\* The loop of _parse over the static tier
RECURSIVE ReadStaticTier(_, _, _, _, _)
ReadStaticTier(buf, table, pos, count, staticMap) ==
    IF count = 0 THEN [ok |-> TRUE, staticMap |-> staticMap, pos |-> pos]
    ELSE IF ~InBuffer(buf, pos, 8)
    THEN [ok |-> FALSE, staticMap |-> staticMap, pos |-> pos]
    ELSE LET selectorHash == readUInt32LE(buf, pos)
             selectorRef == readUInt24LE(buf, pos + 4)
             propCount == readUInt8(buf, pos + 7)
             props == ReadProperties(buf, table, pos + 8, propCount, <<>>)
         IN  IF ~Resolvable(table, selectorRef) \/ ~props.ok
             THEN [ok |-> FALSE, staticMap |-> staticMap, pos |-> pos]
             ELSE ReadStaticTier(buf, table, props.pos, count - 1,
                      MapSet(staticMap, selectorHash,
                             [LoadedRecord("STATIC", selectorHash,
                                           SelectorOf(table, selectorRef, selectorHash))
                                 EXCEPT !.properties = props.properties]))

\* The loop of _parse over the dynamic index
RECURSIVE ReadDynamicIndex(_, _, _, _)
ReadDynamicIndex(buf, pos, count, dynamicIdx) ==
    IF count = 0 THEN [ok |-> TRUE, dynamicIdx |-> dynamicIdx]
    ELSE IF ~InBuffer(buf, pos, 11) THEN [ok |-> FALSE, dynamicIdx |-> dynamicIdx]
    ELSE ReadDynamicIndex(buf, pos + 11, count - 1,
             MapSet(dynamicIdx, readUInt32LE(buf, pos),
                    NumberOf(readUInt32LE(buf, pos + 7))))

\* A loader before its constructor has run
NoLoader ==
    [ready |-> FALSE, table |-> <<>>, staticMap |-> <<>>, dynamicIdx |-> <<>>,
     dynTierStart |-> 0, dynamicCache |-> <<>>]

\* new SOMLoader(buf): _parse. ready is FALSE where the constructor throws.
SOMLoader(buf) ==
    IF Len(buf) < 16 THEN NoLoader
    ELSE IF SubSeq(buf, 1, 4) # <<66, 83, 79, 77>> THEN NoLoader
    ELSE IF readUInt8(buf, 4) # 1 THEN NoLoader
    ELSE IF readUInt32LE(buf, 12) # U32(0, 3) THEN NoLoader
    ELSE LET poolReader == PoolReader(buf, 16)
             pos == 16 + poolReader.totalBytes
             staticCount == NumberOf(readUInt32LE(buf, pos + 4))
             staticSize == NumberOf(readUInt32LE(buf, pos + 8))
             staticEnd == pos + 12 + staticSize
             static == ReadStaticTier(buf, poolReader.table, pos + 12, staticCount,
                                      <<>>)
             dynIdxCount == NumberOf(readUInt32LE(buf, staticEnd + 4))
             dynIdxSize == NumberOf(readUInt32LE(buf, staticEnd + 8))
             index == ReadDynamicIndex(buf, staticEnd + 12, dynIdxCount, <<>>)
         IN  IF ~poolReader.ok THEN NoLoader
             ELSE IF ~InBuffer(buf, pos, 12) THEN NoLoader
             ELSE IF SubSeq(buf, pos + 1, pos + 4) # <<83, 79, 77, 83>> THEN NoLoader
             ELSE IF ~static.ok \/ static.pos # staticEnd THEN NoLoader
             ELSE IF ~InBuffer(buf, staticEnd, 12) THEN NoLoader
             ELSE IF SubSeq(buf, staticEnd + 1, staticEnd + 4) # <<83, 79, 77, 68>>
             THEN NoLoader
             ELSE IF ~index.ok THEN NoLoader
             ELSE [ready |-> TRUE, table |-> poolReader.table,
                   staticMap |-> static.staticMap, dynamicIdx |-> index.dynamicIdx,
                   dynTierStart |-> staticEnd + 12 + dynIdxSize,
                   dynamicCache |-> <<>>]

\* _parseDynamicRecord(absoluteOffset); ok is FALSE where the code throws
_parseDynamicRecord(buf, table, absoluteOffset) ==
    LET failed == [ok |-> FALSE, record |-> LoadedRecord("NONE", U32(0, 0), Null)]
        recordType == readUInt8(buf, absoluteOffset)
        selectorHash == readUInt32LE(buf, absoluteOffset + 1)
        selectorRef == readUInt24LE(buf, absoluteOffset + 5)
        base == LoadedRecord(IF recordType = 1 THEN "BOUNDARY_MARKER"
                             ELSE IF recordType = 2 THEN "RULE_SET"
                             ELSE "NONDETERMINISTIC",
                             selectorHash, SelectorOf(table, selectorRef, selectorHash))
        pos == absoluteOffset + 8
    IN  IF ~InBuffer(buf, absoluteOffset, 9) \/ ~Resolvable(table, selectorRef)
        THEN failed
        ELSE IF recordType = 1
        THEN LET depCount == readUInt8(buf, pos)
                 flags == readUInt8(buf, pos + 1)
                 subgraphCount == IF InBuffer(buf, pos, 4)
                                  THEN readUInt16LE(buf, pos + 2) ELSE 0
                 depsAt(i) == pos + 4 + 8 * (i - 1)
                 hashesAt(i) == pos + 4 + 8 * depCount + 4 * (i - 1)
             IN  IF ~InBuffer(buf, pos, 4 + 8 * depCount + 4 * subgraphCount)
                    \/ \E i \in 1..depCount :
                          ~Resolvable(table, readUInt24LE(buf, depsAt(i) + 1))
                 THEN failed
                 ELSE [ok |-> TRUE,
                       record |-> [base EXCEPT
                           !.depEntries = [i \in 1..depCount |->
                               [depType |-> readUInt8(buf, depsAt(i)),
                                propertyName |->
                                    resolve(table, readUInt24LE(buf, depsAt(i) + 1)),
                                containerHash |-> readUInt32LE(buf, depsAt(i) + 4)]],
                           !.flags = flags,
                           !.subgraphHashes = [i \in 1..subgraphCount |->
                               readUInt32LE(buf, hashesAt(i))]]]
        ELSE IF recordType = 2
        THEN LET propCount == readUInt8(buf, pos)
                 props == ReadProperties(buf, table, pos + 5, propCount, <<>>)
             IN  IF ~InBuffer(buf, pos, 5) \/ ~props.ok THEN failed
                 ELSE [ok |-> TRUE,
                       record |-> [base EXCEPT
                           !.properties = props.properties,
                           !.boundaryHash = readUInt32LE(buf, pos + 1)]]
        ELSE IF recordType = 3
        THEN [ok |-> TRUE, record |-> [base EXCEPT !.flags = readUInt8(buf, pos)]]
        ELSE failed

\* What a lookup hands back: found is FALSE for null
NoResult ==
    [via |-> "none", asked |-> Null, found |-> FALSE,
     record |-> LoadedRecord("NONE", U32(0, 0), Null)]

LookupResult(via, asked, found, record) ==
    [via |-> via, asked |-> asked, found |-> found, record |-> record]

\* getStatic(selector): this._staticMap.get(hash) ?? null
getStatic(ld, selector) ==
    LET hash == fnv1a32(selector)
    IN  IF MapHas(ld.staticMap, hash)
        THEN LookupResult("getStatic", selector, TRUE, MapGet(ld.staticMap, hash))
        ELSE LookupResult("getStatic", selector, FALSE, NoResult.record)

\* getDynamic without the test of the cache
getDynamicWithoutCache(ld, buf, selector) ==
    LET hash == fnv1a32(selector)
        parsed == _parseDynamicRecord(buf, ld.table,
                                      ld.dynTierStart + MapGet(ld.dynamicIdx, hash))
    IN  IF ~MapHas(ld.dynamicIdx, hash)
        THEN [loader |-> ld, threw |-> FALSE, parsed |-> FALSE,
              result |-> LookupResult("getDynamic", selector, FALSE, NoResult.record)]
        ELSE IF ~parsed.ok
        THEN [loader |-> ld, threw |-> TRUE, parsed |-> TRUE,
              result |-> LookupResult("getDynamic", selector, FALSE, NoResult.record)]
        ELSE [loader |-> [ld EXCEPT !.dynamicCache = MapSet(@, hash, parsed.record)],
              threw |-> FALSE, parsed |-> TRUE,
              result |-> LookupResult("getDynamic", selector, TRUE, parsed.record)]

\* getDynamic(selector): the cached record, null for a hash the index does
\* not hold, else the record parsed at its offset and then cached. threw is
\* TRUE where _parseDynamicRecord throws; nothing is cached then. parsed is
\* TRUE where _parseDynamicRecord was called.
getDynamic(ld, buf, selector) ==
    LET hash == fnv1a32(selector)
        parsed == _parseDynamicRecord(buf, ld.table,
                                      ld.dynTierStart + MapGet(ld.dynamicIdx, hash))
    IN  IF MapHas(ld.dynamicCache, hash)
        THEN [loader |-> ld, threw |-> FALSE, parsed |-> FALSE,
              result |-> LookupResult("getDynamic", selector, TRUE,
                                      MapGet(ld.dynamicCache, hash))]
        ELSE IF ~MapHas(ld.dynamicIdx, hash)
        THEN [loader |-> ld, threw |-> FALSE, parsed |-> FALSE,
              result |-> LookupResult("getDynamic", selector, FALSE, NoResult.record)]
        ELSE IF ~parsed.ok
        THEN [loader |-> ld, threw |-> TRUE, parsed |-> TRUE,
              result |-> LookupResult("getDynamic", selector, FALSE, NoResult.record)]
        ELSE [loader |-> [ld EXCEPT !.dynamicCache = MapSet(@, hash, parsed.record)],
              threw |-> FALSE, parsed |-> TRUE,
              result |-> LookupResult("getDynamic", selector, TRUE, parsed.record)]

\* Object identity. Every _parseDynamicRecord call that returns creates a
\* record object; the objects are numbered in the order of their creation
\* and created holds, for each, the hash it was parsed for. cached is the
\* object _dynamicCache holds for a hash, first the object the first lookup
\* of a hash returned, last the object the last lookup returned (0: null or
\* an exception) and hit tells whether the cache served it.
NoHeap ==
    [created |-> <<>>, cached |-> <<>>, first |-> <<>>,
     lastHash |-> U32(0, 0), last |-> 0, hit |-> FALSE]

\* The heap after getDynamic(selector) went from the loader ld to got
HeapAfterGetDynamic(h, ld, selector, got) ==
    LET hash == fnv1a32(selector)
        new == got.parsed /\ ~got.threw
        object == IF new THEN Len(h.created) + 1
                  ELSE IF got.result.found THEN MapGet(h.cached, hash)
                  ELSE 0
    IN  [created |-> IF new THEN Append(h.created, hash) ELSE h.created,
         cached |-> IF new /\ MapHas(got.loader.dynamicCache, hash)
                    THEN MapSet(h.cached, hash, object) ELSE h.cached,
         first |-> IF object # 0 /\ ~MapHas(h.first, hash)
                   THEN MapSet(h.first, hash, object) ELSE h.first,
         lastHash |-> hash,
         last |-> object,
         hit |-> got.result.found /\ ~got.parsed]

----------------------------------------------------------------------------
(* The stylesheets of the model: what parseCSS returns for them *)

Decl(property, value) == [property |-> property, value |-> value]

NoMedia == [text |-> Null, viewport |-> FALSE, userPref |-> FALSE]

Rule(selector, declarations) ==
    [selector |-> selector, declarations |-> declarations, mediaQuery |-> NoMedia]

\* #fff
White == Value(<<35, 102, 102, 102>>, "", {}, <<>>, <<>>)

\* 50%
HalfParent == Value(<<53, 48, 37>>, "", {}, <<"%">>, <<>>)

\* 30vw
ViewportWidth == Value(<<51, 48, 118, 119>>, "", {}, <<"vw">>, <<>>)

\* a bare identifier, as in portal_id: b
Ident(name) == Value(name, "", {}, <<>>, <<>>)

Color == <<99, 111, 108, 111, 114>>

Width == <<119, 105, 100, 116, 104>>

PortalId == <<112, 111, 114, 116, 97, 108, 95, 105, 100>>

\* Stylesheets about portals and contamination
PortalRules ==
    { Rule(<<46, 97>>, <<Decl(Color, White)>>),
      Rule(<<46, 97>>, <<Decl(Width, HalfParent)>>),
      Rule(<<46, 97>>, <<Decl(PortalId, Ident(<<98>>)), Decl(Color, White)>>),
      Rule(<<46, 97, 32, 46, 98>>, <<Decl(Color, White)>>),
      Rule(<<46, 97, 32, 46, 98>>, <<Decl(Width, ViewportWidth)>>),
      Rule(<<46, 97, 32, 46, 98>>, <<Decl(PortalId, Ident(<<114>>)), Decl(Color, White)>>),
      Rule(<<46, 97, 32, 46, 98>>, <<Decl(PortalId, Ident(<<114>>)), Decl(Width, ViewportWidth)>>),
      Rule(<<46, 97, 32, 46, 98>>, <<Decl(PortalId, Ident(<<109, 105, 115, 115, 105, 110, 103>>)), Decl(Color, White)>>),
      Rule(<<46, 114>>, <<Decl(Color, White)>>),
      Rule(<<46, 114>>, <<Decl(Width, HalfParent)>>),
      Rule(<<46, 114>>, <<Decl(PortalId, Ident(<<97>>)), Decl(Color, White)>>),
      Rule(<<46, 97, 32, 108, 105, 58, 102, 105, 114, 115, 116, 45, 99, 104, 105, 108, 100>>, <<Decl(Color, White)>>) }

\* inline-size, as the value of container-type
InlineSize == [Value(<<105, 110, 108, 105, 110, 101, 45, 115, 105, 122, 101>>, "", {}, <<>>, <<>>) EXCEPT !.sizeWord = TRUE]

\* #2563EB: the unit pattern reads 2563 followed by "EB"
BrandBlue == Value(<<35, 50, 53, 54, 51, 69, 66>>, "", {}, <<"eb">>, <<>>)

\* 10%
TenPercent == Value(<<49, 48, 37>>, "", {}, <<"%">>, <<>>)

\* var(--c)
VarC ==
    [Value(<<118, 97, 114, 40, 45, 45, 99, 41>>, "var", {"var"}, <<>>, <<<<45, 45, 99>>>>)
        EXCEPT !.single = [tokenName |-> <<45, 45, 99>>, fallback |-> <<>>]]

\* max(14px, 2cqw)
MaxFont == Value(<<109, 97, 120, 40, 49, 52, 112, 120, 44, 32, 50, 99, 113, 119, 41>>, "max", {"max"}, <<"px", "cqw">>, <<>>)

\* calc(50% + var(--w))
CalcWidth ==
    Value(<<99, 97, 108, 99, 40, 53, 48, 37, 32, 43, 32, 118, 97, 114, 40, 45, 45, 119, 41, 41>>, "calc", {"calc", "var"}, <<"%">>, <<<<45, 45, 119>>>>)

\* rgb(50% 0 0)
RgbPercent == Value(<<114, 103, 98, 40, 53, 48, 37, 32, 48, 32, 48, 41>>, "rgb", {"rgb"}, <<"%">>, <<>>)

MediaRule(selector, declarations, text, viewport, userPref) ==
    [selector |-> selector, declarations |-> declarations,
     mediaQuery |-> [text |-> text, viewport |-> viewport, userPref |-> userPref]]

\* Stylesheets about dependencies, tokens, containers and media queries
DependencyRules ==
    { Rule(<<46, 97>>, <<Decl(Color, White)>>),
      Rule(<<46, 97>>, <<Decl(<<99, 111, 110, 116, 97, 105, 110, 101, 114, 45, 116, 121, 112, 101>>, InlineSize), Decl(Width, HalfParent)>>),
      Rule(<<46, 97>>, <<Decl(<<45, 45, 99>>, BrandBlue), Decl(Color, VarC)>>),
      Rule(<<46, 97, 32, 46, 98>>, <<Decl(Color, White)>>),
      Rule(<<46, 97, 32, 46, 98>>, <<Decl(Color, VarC)>>),
      Rule(<<46, 97, 32, 46, 98>>, <<Decl(<<102, 111, 110, 116, 45, 115, 105, 122, 101>>, MaxFont)>>),
      Rule(<<46, 97, 32, 46, 98>>, <<Decl(<<45, 45, 119>>, TenPercent), Decl(Width, CalcWidth)>>),
      Rule(<<46, 97, 32, 46, 98>>, <<Decl(<<45, 119, 101, 98, 107, 105, 116, 45, 102, 108, 101, 120, 45, 98, 97, 115, 105, 115>>, HalfParent)>>),
      Rule(<<46, 97, 32, 46, 98>>, <<Decl(Color, RgbPercent)>>),
      MediaRule(<<46, 97, 32, 46, 98>>, <<Decl(Color, White)>>, <<40, 109, 105, 110, 45, 119, 105, 100, 116, 104, 58, 32, 54, 48, 48, 112, 120, 41>>, TRUE, FALSE),
      MediaRule(<<46, 97>>, <<Decl(Color, White)>>, <<40, 112, 114, 101, 102, 101, 114, 115, 45, 99, 111, 108, 111, 114, 45, 115, 99, 104, 101, 109, 101, 58, 32, 100, 97, 114, 107, 41>>,
                FALSE, TRUE),
      Rule(<<46, 97, 32, 108, 105, 58, 102, 105, 114, 115, 116, 45, 99, 104, 105, 108, 100>>, <<Decl(Width, HalfParent)>>) }

MaxRules == 3

Stylesheets(menu) == UNION {[1..n -> menu] : n \in 1..MaxRules}

----------------------------------------------------------------------------
(* Before any client of the compiler's output runs *)

\* No selector has been hashed; a hash not computed is <<>>
NoHashes == [selector |-> Null, emitter |-> <<>>, browser |-> <<>>, manager |-> <<>>]

\* No source text has been written
NoParser ==
    [source |-> <<>>, complete |-> <<>>, written |-> 0, ampersands |-> 0,
     others |-> 0, stage |-> "idle", raised |-> FALSE, rules |-> <<>>,
     media |-> <<>>, kept |-> <<>>, hasBlock |-> FALSE, sealed |-> FALSE]

\* No SubscriptionManager has been constructed
NoManager == [stage |-> "idle"]

\* No SOMRuntime has been constructed
NoRuntime == [stage |-> "idle"]

\* emitFallbackCss has not been called
NoFallback == [stage |-> "idle"]

\* binarySomPlugin has not been called
NoPlugin == [stage |-> "idle"]

NoClient ==
    /\ reader = NoReader
    /\ hashes = NoHashes
    /\ intact = <<>>
    /\ parser = NoParser
    /\ manager = NoManager
    /\ runtime = NoRuntime
    /\ fallback = NoFallback
    /\ plugin = NoPlugin

\* The compiler has not run
NoPipeline ==
    /\ css = <<>>
    /\ nodes = <<>>
    /\ manifests = <<>>
    /\ pool = NewPool
    /\ otherPool = NewPool
    /\ binary = <<>>
    /\ loader = NoLoader
    /\ result = NoResult
    /\ heap = NoHeap

----------------------------------------------------------------------------
(* The analysis as a state machine: analyseCSS pass by pass *)

Init ==
    /\ css \in Stylesheets(PortalRules) \cup Stylesheets(DependencyRules)
    /\ pc = "parsed"
    /\ nodes = <<>>
    /\ manifests = <<>>
    /\ pool = NewPool
    /\ otherPool = NewPool
    /\ binary = <<>>
    /\ loader = NoLoader
    /\ result = NoResult
    /\ heap = NoHeap
    /\ NoClient

\* Node creation, tree links, local classification, containers, portals
BuildGraph ==
    /\ pc = "parsed"
    /\ nodes' = GraphOf(css)
    /\ pc' = "graphed"
    /\ UNCHANGED <<css, manifests, codecVars, clientVars>>

\* The contamination pass
Contaminate ==
    /\ pc = "graphed"
    /\ nodes' = ResolveAllFinal([ns |-> nodes, visiting |-> {}, resolved |-> {}], 1)
    /\ pc' = "contaminated"
    /\ UNCHANGED <<css, manifests, codecVars, clientVars>>

\* The boundary pass; analyseCSS throws when the recursion overflows
AssignBoundaries ==
    /\ pc = "contaminated"
    /\ LET r == ResolveAllBoundaries(nodes, 1)
       IN  /\ nodes' = r.ns
           /\ pc' = IF r.overflow THEN "crashed" ELSE "bounded"
    /\ UNCHANGED <<css, manifests, codecVars, clientVars>>

\* Manifests and emit types: analyseCSS returns
BuildManifests ==
    /\ pc = "bounded"
    /\ manifests' = BuildManifestsFrom(nodes, 1)
    /\ nodes' = AssignEmitTypes(nodes)
    /\ pc' = "analysed"
    /\ UNCHANGED <<css, codecVars, clientVars>>

Next == BuildGraph \/ Contaminate \/ AssignBoundaries \/ BuildManifests

Spec == Init /\ [][Next]_vars

----------------------------------------------------------------------------
(* Properties of the analysis *)

Contaminated == pc \in {"contaminated", "bounded", "analysed", "crashed"}

Analysed == pc = "analysed"

Dynamic(n) == isDynamicBinding(n.finalClass)

DeclaresPortal(n) == n.portalTargetRaw # Null

\* The manifests emitted for the rule with this id
ManifestsOf(id) == {k \in DOMAIN manifests : manifests[k].componentId = id}

\* The ids listed in the subgraph_ids of boundary b
Subgraph(b) == UNION {SeqToSet(manifests[k].subgraphIds) : k \in ManifestsOf(b)}

\* The tree ancestors of a rule: its tree parent, that rule's tree parent, ...
RECURSIVE TreeAncestors(_, _)
TreeAncestors(ns, n) ==
    IF n.treeParentId = Null THEN {}
    ELSE {n.treeParentId} \cup TreeAncestors(ns, NodeById(ns, n.treeParentId))

\* The rules met by following effective parents from a rule, itself excluded
\* unless the chain returns to it
RECURSIVE EffectiveAncestors(_, _, _)
EffectiveAncestors(ns, id, seen) ==
    LET parent == NodeById(ns, id).effectiveParentId
    IN  IF parent = Null \/ parent \in seen THEN seen
        ELSE EffectiveAncestors(ns, parent, seen \cup {parent})

OnEffectiveParentCycle(ns, n) == n.id \in EffectiveAncestors(ns, n.id, {})

HasWarning(n, type) == \E k \in DOMAIN n.warnings : n.warnings[k].type = type

ClassRank(c) == IF c = "BIND_STATIC" THEN 0 ELSE IF c = "BIND_DETERMINISTIC" THEN 1 ELSE 2

\* A dynamic rule with no effective parent or with a static one
IsBoundaryRule(ns, n) ==
    /\ Dynamic(n)
    /\ \/ n.effectiveParentId = Null
       \/ ~Dynamic(NodeById(ns, n.effectiveParentId))

\* The boundary rule reached by following effective parents, Null if none is
RECURSIVE ChainBoundary(_, _, _)
ChainBoundary(ns, id, seen) ==
    LET n == NodeById(ns, id)
    IN  IF IsBoundaryRule(ns, n) THEN id
        ELSE IF ~Dynamic(n) \/ id \in seen THEN Null
        ELSE ChainBoundary(ns, n.effectiveParentId, seen \cup {id})

\* C3: after analysis a rule is listed in the subgraph_ids of boundary b if
\* and only if its boundary_id is b.
SubgraphIffBoundaryId ==
    Analysed =>
        \A i \in DOMAIN nodes : \A k \in DOMAIN manifests :
            (nodes[i].id \in SeqToSet(manifests[k].subgraphIds))
                <=> (nodes[i].boundaryId = manifests[k].componentId)

\* C4 as stated: a rule that declares a portal target is in the subgraph of
\* no tree ancestor's boundary.
PortalRuleInNoAncestorSubgraph ==
    Analysed =>
        \A i \in DOMAIN nodes : DeclaresPortal(nodes[i]) =>
            \A a \in TreeAncestors(nodes, nodes[i]) :
                LET b == NodeById(nodes, a).boundaryId
                IN  b # Null => nodes[i].id \notin Subgraph(b)

\* C4: a rule that declares a portal target is in the subgraph of no tree
\* ancestor's boundary, unless it is that boundary itself.
PortalRuleInNoOtherAncestorSubgraph ==
    Analysed =>
        \A i \in DOMAIN nodes : DeclaresPortal(nodes[i]) =>
            \A a \in TreeAncestors(nodes, nodes[i]) :
                LET b == NodeById(nodes, a).boundaryId
                IN  (b # Null /\ b # nodes[i].id) => nodes[i].id \notin Subgraph(b)

\* A dynamic portal rule under a dynamic tree ancestor of another boundary
PortalRuleUnderDynamicAncestor ==
    /\ Analysed
    /\ \E i \in DOMAIN nodes :
          /\ DeclaresPortal(nodes[i])
          /\ Dynamic(nodes[i])
          /\ \E a \in TreeAncestors(nodes, nodes[i]) :
                LET b == NodeById(nodes, a).boundaryId
                IN  b # Null /\ b # nodes[i].id /\ nodes[i].boundaryId = b

\* C5: a rule that declares a portal target has the resolved target as its
\* effective parent, and none (with a PORTAL_MISSING warning) when the target
\* does not resolve; its tree parent never contaminates it.
PortalSeversTreeParent ==
    pc # "parsed" =>
        \A i \in DOMAIN nodes : DeclaresPortal(nodes[i]) =>
            IF nodes[i].portalTargetId # Null
            THEN nodes[i].effectiveParentId = nodes[i].portalTargetId
            ELSE /\ nodes[i].effectiveParentId = Null
                 /\ HasWarning(nodes[i], "PORTAL_MISSING")

\* The equation of C6 at one rule
FinalIsMaxOfLocalAndParent(ns, n) ==
    IF n.effectiveParentId = Null THEN n.finalClass = n.localClass
    ELSE LET parentFinal == NodeById(ns, n.effectiveParentId).finalClass
         IN  /\ n.finalClass = IF ClassRank(parentFinal) > ClassRank(n.localClass)
                               THEN parentFinal ELSE n.localClass
             /\ ClassRank(n.finalClass) >= ClassRank(parentFinal)

StaticRulesHaveThemeDepsOnly ==
    Contaminated =>
        \A i \in DOMAIN nodes : nodes[i].finalClass = "BIND_STATIC" =>
            \A k \in DOMAIN nodes[i].deps : nodes[i].deps[k].depType = "THEME"

\* A static rule that keeps a THEME dependency beside a dynamic rule
StaticRuleWithThemeDep ==
    /\ Contaminated
    /\ \E i \in DOMAIN nodes :
          /\ nodes[i].finalClass = "BIND_STATIC"
          /\ nodes[i].deps # <<>>
    /\ \E i \in DOMAIN nodes : nodes[i].finalClass # "BIND_STATIC"

\* C8: a rule has exactly one manifest if it is dynamic with no effective
\* parent or a static one, and none otherwise; every other dynamic rule's
\* boundary_id is the boundary reached by following effective parents.
OneManifestPerBoundary ==
    Analysed =>
        \A i \in DOMAIN nodes :
            /\ Cardinality(ManifestsOf(nodes[i].id))
                 = IF IsBoundaryRule(nodes, nodes[i]) THEN 1 ELSE 0
            /\ (Dynamic(nodes[i]) /\ ~IsBoundaryRule(nodes, nodes[i]))
                 => /\ nodes[i].boundaryId # Null
                    /\ nodes[i].boundaryId = ChainBoundary(nodes, nodes[i].id, {})

\* One manifest, and a dynamic rule two effective parents below its boundary
BoundaryWithDeepMember ==
    /\ Analysed
    /\ Len(manifests) = 1
    /\ \E i \in DOMAIN nodes :
          /\ Dynamic(nodes[i])
          /\ nodes[i].boundaryId \notin {nodes[i].id, nodes[i].effectiveParentId}

\* C9: the entries of a manifest are exactly the non-THEME dependencies of
\* the members of its subgraph, one entry for each (owner, property, kind,
\* container).
ManifestEntriesAreMemberDeps ==
    Analysed =>
        \A m \in DOMAIN manifests :
            LET listed == manifests[m].entries
                members == SeqToSet(manifests[m].subgraphIds)
            IN  /\ \A id \in members :
                      LET deps == NodeById(nodes, id).deps
                      IN  \A k \in DOMAIN deps : deps[k].depType # "THEME" =>
                              \E e \in DOMAIN listed :
                                  /\ listed[e].componentId = id
                                  /\ listed[e].property = deps[k].property
                                  /\ listed[e].depType = deps[k].depType
                                  /\ listed[e].containerId = deps[k].containerId
                /\ \A e \in DOMAIN listed :
                      /\ listed[e].depType # "THEME"
                      /\ listed[e].componentId \in members
                      /\ LET deps == NodeById(nodes, listed[e].componentId).deps
                         IN  \E k \in DOMAIN deps :
                                 /\ listed[e].property = deps[k].property
                                 /\ listed[e].depType = deps[k].depType
                                 /\ listed[e].expression = deps[k].expression
                                 /\ listed[e].containerId = deps[k].containerId
                /\ \A e, f \in DOMAIN listed :
                      (/\ listed[e].componentId = listed[f].componentId
                       /\ listed[e].property = listed[f].property
                       /\ listed[e].depType = listed[f].depType
                       /\ listed[e].containerId = listed[f].containerId) => e = f

\* A manifest over two members where one member has a THEME dependency and
\* two dependencies that share one entry
ManifestMergesAndDropsDeps ==
    /\ Analysed
    /\ \E m \in DOMAIN manifests :
          /\ Len(manifests[m].subgraphIds) >= 2
          /\ \E k \in DOMAIN manifests[m].subgraphIds :
                LET deps == NodeById(nodes, manifests[m].subgraphIds[k]).deps
                IN  /\ \E d \in DOMAIN deps : deps[d].depType = "THEME"
                    /\ \E d, e \in DOMAIN deps :
                          /\ d # e
                          /\ deps[d].depType # "THEME"
                          /\ deps[d].property = deps[e].property
                          /\ deps[d].depType = deps[e].depType
                          /\ deps[d].containerId = deps[e].containerId

----------------------------------------------------------------------------
(* Emitting and loading: cli.js main, then a SOMLoader over the binary *)

Display == <<100, 105, 115, 112, 108, 97, 121>>

\* block
Block == Value(<<98, 108, 111, 99, 107>>, "", {}, <<>>, <<>>)

\* Stylesheets for the binary: static rules, boundaries, rule sets, a portal
\* and a structural pseudo-class
CodecRules ==
    { Rule(<<46, 97>>, <<Decl(Color, White)>>),
      Rule(<<46, 97>>, <<Decl(Width, HalfParent)>>),
      Rule(<<46, 97, 32, 46, 98>>, <<Decl(Color, White)>>),
      Rule(<<46, 97, 32, 46, 98>>, <<Decl(Width, ViewportWidth), Decl(Color, White)>>),
      Rule(<<46, 97, 32, 46, 99>>, <<Decl(Display, Block), Decl(Color, White)>>),
      Rule(<<46, 114>>, <<Decl(PortalId, Ident(<<97>>)), Decl(Color, White)>>),
      Rule(<<46, 114>>, <<Decl(Width, HalfParent)>>),
      Rule(<<46, 97, 32, 108, 105, 58, 102, 105, 114, 115, 116, 45, 99, 104, 105, 108, 100>>, <<Decl(Color, White)>>) }

InitCodec ==
    /\ css \in Stylesheets(CodecRules)
    /\ pc = "parsed"
    /\ nodes = <<>>
    /\ manifests = <<>>
    /\ pool = NewPool
    /\ otherPool = NewPool
    /\ binary = <<>>
    /\ loader = NoLoader
    /\ result = NoResult
    /\ heap = NoHeap
    /\ NoClient

\* const pool = buildPoolFromAnalysis(analysis)
BuildPool ==
    /\ pc = "analysed"
    /\ pool' = buildPoolFromAnalysis(nodes, css)
    /\ pc' = "pooled"
    /\ UNCHANGED <<css, nodes, manifests, otherPool, binary, loader, result, heap, clientVars>>

\* emitComponentSection(analysis, pool), then assembleBinary
Emit ==
    /\ pc = "pooled"
    /\ binary' = With(emitComponentSection(nodes, manifests, pool), LAMBDA emit :
                     assembleBinary(serialise(pool), emit.staticTier,
                                    emit.dynamicIndex, emit.dynamicTier))
    /\ pc' = "emitted"
    /\ UNCHANGED <<css, nodes, manifests, pool, otherPool, loader, result, heap, clientVars>>

\* new SOMLoader(binary); the constructor throws on a binary it rejects
Load ==
    /\ pc = "emitted"
    /\ loader' = SOMLoader(binary)
    /\ pc' = IF loader'.ready THEN "loaded" ELSE "rejected"
    /\ UNCHANGED <<css, nodes, manifests, pool, otherPool, binary, result, heap, clientVars>>

\* The record objects one loader creates within the model
MaxObjects == 4

\* zz: a selector no rule has
NoSuchSelector == <<46, 122, 122>>

LookupSelectors == {nodes[i].selector : i \in DOMAIN nodes} \cup {NoSuchSelector}

GetStatic ==
    /\ pc = "loaded"
    /\ \E selector \in LookupSelectors : result' = getStatic(loader, selector)
    /\ UNCHANGED <<css, pc, nodes, manifests, pool, otherPool, binary, loader, heap, clientVars>>

GetDynamic ==
    /\ pc = "loaded"
    /\ Len(heap.created) < MaxObjects
    /\ \E selector \in LookupSelectors :
          LET got == getDynamic(loader, binary, selector)
          IN  /\ loader' = got.loader
              /\ result' = got.result
              /\ heap' = HeapAfterGetDynamic(heap, loader, selector, got)
    /\ UNCHANGED <<css, pc, nodes, manifests, pool, otherPool, binary, clientVars>>

NextCodec == Next \/ BuildPool \/ Emit \/ Load \/ GetStatic \/ GetDynamic

SpecCodec == InitCodec /\ [][NextCodec]_vars

\* analyseCSS over the parsed rules, the passes one after the other; threw
\* is TRUE where the boundary pass overflows the stack.
analyseCSS(rules) ==
    With(ResolveAllBoundaries(
             ResolveAllFinal([ns |-> GraphOf(rules), visiting |-> {},
                              resolved |-> {}], 1), 1),
         LAMBDA bounded :
    IF bounded.overflow THEN [threw |-> TRUE, nodes |-> <<>>, manifests |-> <<>>]
    ELSE [threw |-> FALSE, nodes |-> AssignEmitTypes(bounded.ns),
          manifests |-> BuildManifestsFrom(bounded.ns, 1)])

\* cli.js --som-out: the bytes written for a stylesheet, none where the
\* analysis threw
somOut(rules) ==
    With(analyseCSS(rules), LAMBDA analysis :
    With(buildPoolFromAnalysis(analysis.nodes, rules), LAMBDA built :
    With(emitComponentSection(analysis.nodes, analysis.manifests, built),
         LAMBDA emit :
    IF analysis.threw THEN <<>>
    ELSE assembleBinary(serialise(built), emit.staticTier, emit.dynamicIndex,
                        emit.dynamicTier))))

----------------------------------------------------------------------------
(* Properties of the binary *)

DistinctSelectors ==
    \A i, j \in DOMAIN css : css[i].selector = css[j].selector => i = j

\* The lookup that serves a rule: getStatic for a static rule, else getDynamic
LookupFor(n) == IF n.finalClass = STATIC THEN "getStatic" ELSE "getDynamic"

\* The record type a rule is emitted under
RecordTypeOf(n) ==
    IF n.finalClass = STATIC THEN "STATIC"
    ELSE IF n.finalClass = NONDETERMINISTIC THEN "NONDETERMINISTIC"
    ELSE IF n.boundaryId = n.id THEN "BOUNDARY_MARKER"
    ELSE "RULE_SET"

\* The name/value pairs a rule declares, custom properties left out
DeclaredPairs(n) ==
    {<<n.declarations[k].property, n.declarations[k].value.raw>> :
        k \in {m \in DOMAIN n.declarations :
                  ~IsCustomProperty(n.declarations[m].property)}}

\* The record is the record of rule n: its selector, its type, and the
\* contents of that type
RecordMatches(rec, n) ==
    /\ rec.selector = n.selector
    /\ rec.selectorHash = fnv1a32(n.selector)
    /\ rec.recordType = RecordTypeOf(n)
    /\ rec.recordType \in {"STATIC", "RULE_SET"} =>
          {<<rec.properties[k].key, rec.properties[k].value>> :
              k \in DOMAIN rec.properties} = DeclaredPairs(n)
    /\ rec.recordType = "RULE_SET" =>
          rec.boundaryHash = fnv1a32(NodeById(nodes, n.boundaryId).selector)
    /\ rec.recordType = "BOUNDARY_MARKER" =>
          /\ [k \in DOMAIN rec.depEntries |->
                 <<rec.depEntries[k].depType, rec.depEntries[k].propertyName>>]
             = [k \in DOMAIN n.deps |->
                 <<DEP_TYPE_CODE(n.deps[k].depType), n.deps[k].property>>]
          /\ {rec.subgraphHashes[k] : k \in DOMAIN rec.subgraphHashes}
             = {fnv1a32(NodeById(nodes, id).selector) : id \in Subgraph(n.id)}

\* C1: after any lookup of a rule's selector through the lookup that serves
\* its class, the loader has handed back that rule's record: same selector,
\* record type and contents. Stated for stylesheets whose selectors are
\* pairwise distinct.
RoundTripEveryRule ==
    (pc = "loaded" /\ DistinctSelectors /\ result.via # "none") =>
        \A i \in DOMAIN nodes :
            (nodes[i].selector = result.asked /\ LookupFor(nodes[i]) = result.via)
                => result.found /\ RecordMatches(result.record, nodes[i])

\* C2: every reordering of the rules of the stylesheet compiles to the bytes
\* the stylesheet itself compiled to. Stated for stylesheets whose selectors
\* are pairwise distinct.
ReorderingKeepsBinary ==
    (pc = "emitted" /\ DistinctSelectors) =>
        \A order \in Permutations(DOMAIN css) :
            somOut([k \in DOMAIN css |-> css[order[k]]]) = binary

\* Every lookup through the loader has parsed no record twice, and the last
\* lookup returned the object the first lookup of its hash returned
ParsedOnceSameObject ==
    /\ \A i, j \in DOMAIN heap.created : heap.created[i] = heap.created[j] => i = j
    /\ heap.last # 0 => heap.last = MapGet(heap.first, heap.lastHash)

\* C14: over any sequence of lookups on one loader each dynamic record is
\* parsed at most once, and every lookup of the same selector hash returns
\* the identical record object.
LazyCacheIdentity == pc = "loaded" => ParsedOnceSameObject

\* A lookup of a hash looked up before was served from the cache
RepeatedLookupFromCache == pc = "loaded" /\ heap.hit /\ heap.last # 0

----------------------------------------------------------------------------
(* Two pool builders fed by hand *)

\* "a", "ab", the lone surrogates U+D800 and U+D801, and the empty string
PoolStrings == {<<97>>, <<97, 98>>, <<55296>>, <<55297>>, <<>>}

MaxInterns == 3

InitPool ==
    /\ css = <<>>
    /\ pc = "pools"
    /\ nodes = <<>>
    /\ manifests = <<>>
    /\ pool = NewPool
    /\ otherPool = NewPool
    /\ binary = <<>>
    /\ loader = NoLoader
    /\ result = NoResult
    /\ heap = NoHeap
    /\ NoClient

Intern ==
    /\ pc = "pools"
    /\ Len(pool.strings) < MaxInterns
    /\ \E str \in PoolStrings : pool' = intern(pool, str)
    /\ UNCHANGED <<css, pc, nodes, manifests, otherPool, binary, loader, result, heap, clientVars>>

Finalise ==
    /\ pc = "pools"
    /\ pool' = finalise(pool)
    /\ UNCHANGED <<css, pc, nodes, manifests, otherPool, binary, loader, result, heap, clientVars>>

InternOther ==
    /\ pc = "pools"
    /\ Len(otherPool.strings) < MaxInterns
    /\ \E str \in PoolStrings : otherPool' = intern(otherPool, str)
    /\ UNCHANGED <<css, pc, nodes, manifests, pool, binary, loader, result, heap, clientVars>>

FinaliseOther ==
    /\ pc = "pools"
    /\ otherPool' = finalise(otherPool)
    /\ UNCHANGED <<css, pc, nodes, manifests, pool, binary, loader, result, heap, clientVars>>

NextPool == Intern \/ Finalise \/ InternOther \/ FinaliseOther

SpecPool == InitPool /\ [][NextPool]_vars

----------------------------------------------------------------------------
(* Properties of the pool *)

\* The strings a builder holds
Interned(p) == {p.strings[i].str : i \in DOMAIN p.strings}

\* Every string of the builder was interned before finalise() ran
FinalisedAfterInterning(p) ==
    p.finalised /\ \A i \in DOMAIN p.strings : p.strings[i].idx # -1

\* C10: two finalised pools that hold the same strings, all of them interned
\* before finalise(), give every string the same index and serialise to the
\* same bytes.
SameStringsSameIndices ==
    (/\ pc = "pools"
     /\ FinalisedAfterInterning(pool)
     /\ FinalisedAfterInterning(otherPool)
     /\ Interned(pool) = Interned(otherPool)) =>
        /\ \A str \in Interned(pool) : ref(pool, str) = ref(otherPool, str)
        /\ serialise(pool) = serialise(otherPool)

----------------------------------------------------------------------------
(* A pool builder, its serialisation and a reader over it *)

\* const buf = builder.serialise(); new PoolReader(buf)
Serialise ==
    /\ pc = "pools"
    /\ pool' = finalise(pool)
    /\ binary' = serialise(pool)
    /\ reader' = PoolReader(binary', 0)
    /\ UNCHANGED <<css, heap, pc, nodes, manifests, otherPool, loader, result, hashes, intact, parser, manager, runtime, fallback, plugin>>

\* reader.resolve(builder.ref(str)); ref throws on a builder that is not
\* finalised, resolve on an index outside the table
Resolve ==
    /\ pc = "pools"
    /\ pool.finalised
    /\ reader.ok
    /\ \E str \in PoolStrings :
          LET idx == ref(pool, str)
              threw == ~Resolvable(reader.table, idx)
          IN  result' = [via |-> "resolve", asked |-> str, idx |-> idx,
                         threw |-> threw,
                         str |-> IF threw THEN Null ELSE resolve(reader.table, idx)]
    /\ UNCHANGED <<css, heap, pc, nodes, manifests, pool, otherPool, binary, loader, reader, hashes, intact, parser, manager, runtime, fallback, plugin>>

NextReader == Intern \/ Finalise \/ Serialise \/ Resolve

SpecReader == InitPool /\ [][NextReader]_vars

\* The reader was built from the serialisation of the pool as it is now,
\* and the last resolve went through it
ResolvedThroughReader ==
    /\ pc = "pools"
    /\ result.via = "resolve"
    /\ FinalisedAfterInterning(pool)
    /\ reader.ok
    /\ binary = serialise(pool)

\* C11: resolving the index ref(s) returns, against a reader built from the
\* pool's serialisation, yields s for every interned non-empty s, and
\* resolving NULL_REF yields null.
ResolveOfRefIsIdentity ==
    ResolvedThroughReader =>
        /\ result.asked \in Interned(pool) =>
               ~result.threw /\ result.str = result.asked
        /\ result.idx = NULL_REF => ~result.threw /\ result.str = Null

\* The same for strings that are well-formed UTF-16
ResolveOfRefIsIdentityWellFormed ==
    (ResolvedThroughReader /\ Utf8Decode(Utf8(result.asked)) = result.asked) =>
        /\ result.asked \in Interned(pool) =>
               ~result.threw /\ result.str = result.asked
        /\ result.idx = NULL_REF => ~result.threw /\ result.str = Null

----------------------------------------------------------------------------
(* One selector hashed by the emitter, the browser loader and the
   subscription manager *)

\* The code units of ".", "a", U+00E9 and U+65E5
HashAlphabet == {46, 97, 233, 26085}

MaxSelectorLen == 3

HashSelectors == UNION {[1..n -> HashAlphabet] : n \in 0..MaxSelectorLen}

InitHash ==
    /\ NoPipeline
    /\ pc = "hashing"
    /\ NoClient

\* The hashes of the selector s: those already taken if s was the selector
\* last hashed, none otherwise
HashesOf(s) == IF hashes.selector = s THEN hashes ELSE [NoHashes EXCEPT !.selector = s]

\* emitter: fnv1a32(node.selector)
EmitterHash ==
    /\ pc = "hashing"
    /\ \E s \in HashSelectors : hashes' = [HashesOf(s) EXCEPT !.emitter = fnv1a32(s)]
    /\ UNCHANGED <<css, pc, nodes, manifests, codecVars, reader, intact, parser, manager, runtime, fallback, plugin>>

\* browser loader: fnv1a32(selectorOrHash)
BrowserHash ==
    /\ pc = "hashing"
    /\ \E s \in HashSelectors : hashes' = [HashesOf(s) EXCEPT !.browser = browserFnv1a32(s)]
    /\ UNCHANGED <<css, pc, nodes, manifests, codecVars, reader, intact, parser, manager, runtime, fallback, plugin>>

\* subscription manager: this.hash(selector)
ManagerHash ==
    /\ pc = "hashing"
    /\ \E s \in HashSelectors :
          hashes' = [HashesOf(s) EXCEPT !.manager = SubscriptionManagerHash(s)]
    /\ UNCHANGED <<css, pc, nodes, manifests, codecVars, reader, intact, parser, manager, runtime, fallback, plugin>>

NextHash == EmitterHash \/ BrowserHash \/ ManagerHash

SpecHash == InitHash /\ [][NextHash]_vars

\* C12: the emitter's, the browser loader's and the subscription manager's
\* hash of a selector all equal FNV-1a-32 over its UTF-8 bytes, and
\* 0x811c9dc5 for the empty selector.
OneSelectorHash ==
    pc = "hashing" =>
        \A h \in {hashes.emitter, hashes.browser, hashes.manager} \ {<<>>} :
            /\ h = FnvFold(FNV_OFFSET_BASIS, Utf8(hashes.selector))
            /\ hashes.selector = <<>> => h = U32(33052, 40389)

\* The same for selectors of ASCII characters only
OneSelectorHashAscii ==
    (pc = "hashing" /\ \A k \in DOMAIN hashes.selector : hashes.selector[k] < 128) =>
        \A h \in {hashes.emitter, hashes.browser, hashes.manager} \ {<<>>} :
            /\ h = FnvFold(FNV_OFFSET_BASIS, Utf8(hashes.selector))
            /\ hashes.selector = <<>> => h = U32(33052, 40389)

----------------------------------------------------------------------------
(* A loader over a damaged file: the binary is cut short or one of its
   bytes is overwritten between the compiler and the loader *)

\* A static rule, a boundary and a nondeterministic rule; a boundary with
\* two rule sets under it
DamageStylesheets ==
    { << Rule(<<46, 97>>, <<Decl(Color, White)>>),
         Rule(<<46, 114>>, <<Decl(Width, HalfParent)>>),
         Rule(<<46, 97, 32, 108, 105, 58, 102, 105, 114, 115, 116, 45, 99, 104, 105, 108, 100>>, <<Decl(Color, White)>>) >>,
      << Rule(<<46, 97>>, <<Decl(Width, HalfParent)>>),
         Rule(<<46, 97, 32, 46, 98>>, <<Decl(Color, White)>>),
         Rule(<<46, 97, 32, 46, 99>>, <<Decl(Display, Block), Decl(Color, White)>>) >> }

InitDamage ==
    /\ css \in DamageStylesheets
    /\ pc = "parsed"
    /\ nodes = <<>>
    /\ manifests = <<>>
    /\ pool = NewPool
    /\ otherPool = NewPool
    /\ binary = <<>>
    /\ loader = NoLoader
    /\ result = NoResult
    /\ heap = NoHeap
    /\ NoClient

\* The file loses its tail
Truncate ==
    /\ pc = "emitted"
    /\ intact = <<>>
    /\ \E n \in 0..(Len(binary) - 1) : binary' = SubSeq(binary, 1, n)
    /\ intact' = binary
    /\ UNCHANGED <<css, heap, pc, nodes, manifests, pool, otherPool, loader, result,
                   reader, hashes, parser, manager, runtime, fallback, plugin>>

\* The values a damaged byte takes: its lowest bit flipped, or its
\* neighbour above
CorruptBytes(b) == {IF b % 2 = 0 THEN b + 1 ELSE b - 1, (b + 1) % 256}

\* One byte of the file is overwritten
Corrupt ==
    /\ pc = "emitted"
    /\ intact = <<>>
    /\ \E k \in DOMAIN binary : \E b \in CorruptBytes(binary[k]) :
          binary' = [binary EXCEPT ![k] = b]
    /\ intact' = binary
    /\ UNCHANGED <<css, heap, pc, nodes, manifests, pool, otherPool, loader, result,
                   reader, hashes, parser, manager, runtime, fallback, plugin>>

NextDamage == NextCodec \/ Truncate \/ Corrupt

SpecDamage == InitDamage /\ [][NextDamage]_vars

\* What the same lookup returns from a loader over the intact binary
IntactResult ==
    IF result.via = "getStatic" THEN getStatic(SOMLoader(intact), result.asked)
    ELSE getDynamic(SOMLoader(intact), intact, result.asked).result

\* C13: a lookup on a loader over a truncated or corrupt binary returns no
\* record that differs from the record the intact binary holds for the
\* selector: where it returns a record, it is that record.
DamagedNeverDiffers ==
    (pc = "loaded" /\ intact # <<>> /\ result.via # "none" /\ result.found) =>
        result = IntactResult

\* The same for a binary that is only cut short
TruncatedNeverDiffers ==
    (/\ pc = "loaded" /\ intact # <<>> /\ result.via # "none" /\ result.found
     /\ Len(binary) < Len(intact)) =>
        result = IntactResult

----------------------------------------------------------------------------
(* cssparser: parseCSS over the source text. Positions count from 1 here,
   from 0 in the code. *)

\* What /\s/ matches among the characters of the model
IsSpace(ch) == ch \in {9, 10, 11, 12, 13, 32}

\* String.prototype.trim
Trim(s) ==
    LET kept == {i \in DOMAIN s : ~IsSpace(s[i])}
    IN  IF kept = {} THEN <<>>
        ELSE SubSeq(s, CHOOSE i \in kept : \A j \in kept : i <= j,
                       CHOOSE i \in kept : \A j \in kept : j <= i)

\* normalizeSelector: trimmed, every run of white space one space
normalizeSelector(selector) ==
    LET t == Trim(selector)
        kept == SelectSeq([i \in DOMAIN t |->
                              IF ~IsSpace(t[i]) THEN t[i]
                              ELSE IF IsSpace(t[i - 1]) THEN 0 ELSE 32],
                          LAMBDA ch : ch # 0)
    IN  kept

\* The scanning loop the five scanners of the parser share, from position i
\* on: for every position whether its character is read at the top level,
\* that is outside quotes, parentheses and brackets and not itself a quote.
\* quote is 0, 39 or 34; prev is the character before, whatever it is.

\* One turn of the scanning loop on the character at position i
ScanStep(text, i, quote, depthParens, depthBrackets) ==
    LET ch == text[i]
        prev == IF i > 1 THEN text[i - 1] ELSE 0
        to(q, parens, brackets, isTop) ==
            [top |-> <<isTop>>, quote |-> q, depthParens |-> parens,
             depthBrackets |-> brackets]
    IN  IF ch \in {39, 34} /\ prev # 92
        THEN to(IF quote = ch THEN 0 ELSE IF quote = 0 THEN ch ELSE quote,
                depthParens, depthBrackets, FALSE)
        ELSE IF quote # 0 THEN to(quote, depthParens, depthBrackets, FALSE)
        ELSE IF ch = 40 THEN to(quote, depthParens + 1, depthBrackets, FALSE)
        ELSE IF ch = 41 /\ depthParens > 0
        THEN to(quote, depthParens - 1, depthBrackets, FALSE)
        ELSE IF ch = 91 THEN to(quote, depthParens, depthBrackets + 1, FALSE)
        ELSE IF ch = 93 /\ depthBrackets > 0
        THEN to(quote, depthParens, depthBrackets - 1, FALSE)
        ELSE to(quote, depthParens, depthBrackets,
                depthParens = 0 /\ depthBrackets = 0)

\* The loop over positions first..last, by halves
RECURSIVE ScanRange(_, _, _, _, _, _)
ScanRange(text, first, last, quote, depthParens, depthBrackets) ==
    IF first = last THEN ScanStep(text, first, quote, depthParens, depthBrackets)
    ELSE With(ScanRange(text, first, (first + last) \div 2,
                        quote, depthParens, depthBrackets), LAMBDA left :
         With(ScanRange(text, (first + last) \div 2 + 1, last,
                        left.quote, left.depthParens, left.depthBrackets),
              LAMBDA right : [top |-> left.top \o right.top,
                              quote |-> right.quote,
                              depthParens |-> right.depthParens,
                              depthBrackets |-> right.depthBrackets]))

ScanTopLevel(text, i, quote, depthParens, depthBrackets) ==
    IF i > Len(text) THEN <<>>
    ELSE ScanRange(text, i, Len(text), quote, depthParens, depthBrackets).top

\* The positions from startIdx on whose character is one of chars, read at
\* the top level by a scan that starts at startIdx
TopLevelPositions(text, startIdx, chars) ==
    With(ScanTopLevel(text, startIdx, 0, 0, 0), LAMBDA top :
        {k \in startIdx..Len(text) : top[k - startIdx + 1] /\ text[k] \in chars})

Least(S) == CHOOSE k \in S : \A j \in S : k <= j

\* findTopLevelTerminator: the first { (a block) or ; (a statement) at the
\* top level; index 0 stands for null
findTopLevelTerminator(text, startIdx) ==
    With(TopLevelPositions(text, startIdx, {123, 59}), LAMBDA found :
        IF found = {} THEN [index |-> 0, kind |-> "none"]
        ELSE [index |-> Least(found),
              kind |-> IF text[Least(found)] = 123 THEN "block" ELSE "statement"])

\* findMatchingBrace: the first } at the top level that brings braceDepth
\* back to 0; 0 stands for -1
findMatchingBrace(text, openBraceIdx) ==
    With(TopLevelPositions(text, openBraceIdx, {123, 125}), LAMBDA braces :
        With({k \in braces :
                 /\ text[k] = 125
                 /\ Cardinality({j \in braces : j <= k /\ text[j] = 123})
                      = Cardinality({j \in braces : j <= k /\ text[j] = 125})},
             LAMBDA closing : IF closing = {} THEN 0 ELSE Least(closing)))

\* splitByComma: the trimmed pieces between the top-level commas, the empty
\* ones dropped
splitByComma(input) ==
    With(TopLevelPositions(input, 1, {44}), LAMBDA commas :
        LET cuts == SelectSeq([k \in 1..(Len(input) + 2) |-> k - 1],
                              LAMBDA c : c = 0 \/ c = Len(input) + 1 \/ c \in commas)
            pieces == [k \in 1..(Len(cuts) - 1) |->
                          Trim(SubSeq(input, cuts[k] + 1, cuts[k + 1] - 1))]
        IN  SelectSeq(pieces, LAMBDA piece : piece # <<>>))

\* parseDeclaration: property and value around the first top-level colon;
\* ok is FALSE for null
parseDeclaration(decl) ==
    LET text == Trim(decl)
        colons == TopLevelPositions(text, 1, {58})
        colonIdx == IF colons = {} THEN 0 ELSE Least(colons)
        property == Trim(SubSeq(text, 1, colonIdx - 1))
        value == Trim(SubSeq(text, colonIdx + 1, Len(text)))
        none == [ok |-> FALSE, property |-> <<>>, value |-> <<>>]
    IN  IF text = <<>> \/ colonIdx = 0 THEN none
        ELSE IF property = <<>> \/ value = <<>> THEN none
        ELSE IF property[1] = 64 THEN none
        ELSE [ok |-> TRUE, property |-> property, value |-> value]

\* The longest string of the engine: 2^29 - 24 code units in V8
\* (buffer.constants.MAX_STRING_LENGTH). A string operation whose result
\* would be longer throws RangeError: Invalid string length.
MAX_STRING_LENGTH == 536870912 - 24

\* A selector longer than this is kept by its length only
MaxSelectorText == 32

\* A selector: its code units, or <<-1, n>> for one of n code units that is
\* too long to be written out
TooLong(n) == <<-1, n>>

IsTooLong(selector) == Len(selector) = 2 /\ selector[1] = -1

SelectorLength(selector) == IF IsTooLong(selector) THEN selector[2] ELSE Len(selector)

\* normalizedChild.replace(/&/g, normalizedParent), then normalizeSelector; a
\* parent and a child that are normalised give a normalised result. raised
\* is TRUE where the result is longer than the longest string.
ReplaceAmpersands(child, parent) ==
    LET count == Cardinality({i \in DOMAIN child : child[i] = 38})
        others == Len(child) - count
        each == SelectorLength(parent)
    IN  IF each > (MAX_STRING_LENGTH - others) \div count
        THEN [raised |-> TRUE, selector |-> <<>>]
        ELSE IF others + count * each > MaxSelectorText \/ IsTooLong(parent)
        THEN [raised |-> FALSE, selector |-> TooLong(others + count * each)]
        ELSE [raised |-> FALSE,
              selector |-> normalizeSelector(Concat([i \in DOMAIN child |->
                               IF child[i] = 38 THEN parent ELSE <<child[i]>>]))]

\* `${normalizedParent} ${normalizedChild}`, then normalizeSelector
JoinWithSpace(parent, child) ==
    LET length == SelectorLength(parent) + 1 + Len(child)
    IN  IF length > MAX_STRING_LENGTH THEN [raised |-> TRUE, selector |-> <<>>]
        ELSE IF length > MaxSelectorText \/ IsTooLong(parent)
        THEN [raised |-> FALSE, selector |-> TooLong(length)]
        ELSE [raised |-> FALSE, selector |-> normalizeSelector(parent \o <<32>> \o child)]

\* [...new Set(expanded)]: the first occurrence of every selector
Distinct(selectors) ==
    LET firsts == SelectSeq([k \in DOMAIN selectors |->
                                IF \E m \in 1..(k - 1) : selectors[m] = selectors[k]
                                THEN <<-2>> ELSE selectors[k]],
                            LAMBDA sel : sel # <<-2>>)
    IN  firsts

\* expandNestedSelectors: every parent with every child of the nested
\* selector list, & standing for the parent
expandNestedSelectors(parentSelectors, nestedSelectorText) ==
    LET nestedSelectors == splitByComma(nestedSelectorText)
        merged(parent, child) ==
            With(normalizeSelector(child), LAMBDA normalizedChild :
                IF normalizedChild = <<>> THEN [raised |-> FALSE, selector |-> <<>>]
                ELSE IF \E i \in DOMAIN normalizedChild : normalizedChild[i] = 38
                THEN ReplaceAmpersands(normalizedChild,
                         IF IsTooLong(parent) THEN parent ELSE normalizeSelector(parent))
                ELSE JoinWithSpace(
                         IF IsTooLong(parent) THEN parent ELSE normalizeSelector(parent),
                         normalizedChild))
        all == Concat([p \in DOMAIN parentSelectors |->
                   [c \in DOMAIN nestedSelectors |->
                       merged(parentSelectors[p], nestedSelectors[c])]])
    IN  [raised |-> \E k \in DOMAIN all : all[k].raised,
         selectors |-> Distinct(SelectSeq([k \in DOMAIN all |-> all[k].selector],
                                          LAMBDA sel : sel # <<>>))]

\* parseAtRulePrelude: /^@([a-z-]+)\s*([\s\S]*)$/i; ok is FALSE for null
parseAtRulePrelude(prelude) ==
    LET text == Trim(prelude)
        isNameChar(ch) == (ch >= 97 /\ ch <= 122) \/ (ch >= 65 /\ ch <= 90) \/ ch = 45
        nameEnd == Least({k \in 1..Len(text) :
                             k = Len(text) \/ ~isNameChar(text[k + 1])})
    IN  IF text = <<>> \/ text[1] # 64 \/ Len(text) < 2 \/ ~isNameChar(text[2])
        THEN [ok |-> FALSE, name |-> <<>>, condition |-> <<>>]
        ELSE [ok |-> TRUE,
              name |-> ToLower(SubSeq(text, 2, nameEnd)),
              condition |-> Trim(SubSeq(text, nameEnd + 1, Len(text)))]

\* combineMediaQueries
combineMediaQueries(parentQuery, childQuery) ==
    LET parent == Trim(parentQuery)
        child == Trim(childQuery)
    IN  IF parent = <<>> THEN child
        ELSE IF child = <<>> THEN parent
        ELSE parent \o <<32, 97, 110, 100, 32>> \o child

\* The media query a nested at-rule block is parsed under
NestedMediaQuery(prelude, currentMediaQuery) ==
    With(parseAtRulePrelude(prelude), LAMBDA at :
        IF at.ok /\ at.name = <<109, 101, 100, 105, 97>>
        THEN combineMediaQueries(currentMediaQuery, at.condition)
        ELSE currentMediaQuery)

\* The first position from i on that holds no white space
SkipSpaces(text, i) ==
    Least({k \in i..(Len(text) + 1) : k > Len(text) \/ ~IsSpace(text[k])})

\* splitTopLevelBlockItems, from position i on: the declarations and the
\* nested blocks of a block body; a block that is not closed ends the list
RECURSIVE SplitItemsFrom(_, _)
SplitItemsFrom(block, from) ==
    With(SkipSpaces(block, from), LAMBDA i :
        IF i > Len(block) THEN <<>>
        ELSE With(findTopLevelTerminator(block, i), LAMBDA term :
            IF term.kind = "none"
            THEN IF Trim(SubSeq(block, i, Len(block))) = <<>> THEN <<>>
                 ELSE << [type |-> "declaration",
                          text |-> Trim(SubSeq(block, i, Len(block))),
                          prelude |-> <<>>, body |-> <<>>] >>
            ELSE IF term.kind = "statement"
            THEN (IF Trim(SubSeq(block, i, term.index - 1)) = <<>> THEN <<>>
                  ELSE << [type |-> "declaration",
                           text |-> Trim(SubSeq(block, i, term.index - 1)),
                           prelude |-> <<>>, body |-> <<>>] >>)
                 \o SplitItemsFrom(block, term.index + 1)
            ELSE With(findMatchingBrace(block, term.index), LAMBDA blockEnd :
                IF blockEnd = 0 THEN <<>>
                ELSE << [type |-> "block", text |-> <<>>,
                         prelude |-> Trim(SubSeq(block, i, term.index - 1)),
                         body |-> SubSeq(block, term.index + 1, blockEnd - 1)] >>
                     \o SplitItemsFrom(block, blockEnd + 1))))

splitTopLevelBlockItems(block) == SplitItemsFrom(block, 1)

\* declarations[property] = value on an object kept as its entries in
\* insertion order
SetDeclaration(declarations, property, value) ==
    IF \E k \in DOMAIN declarations : declarations[k].property = property
    THEN [k \in DOMAIN declarations |->
             IF declarations[k].property = property
             THEN [property |-> property, value |-> value] ELSE declarations[k]]
    ELSE Append(declarations, [property |-> property, value |-> value])

\* parseStyleBlock, from item k on: declarations are collected, nested blocks
\* are parsed as they come, and the rules of the block itself are pushed
\* last. raised is TRUE where the code throws.
RECURSIVE StyleItemsFrom(_, _, _, _, _, _)
StyleItemsFrom(selectorList, items, k, declarations, outRules, currentMediaQuery) ==
    IF k > Len(items)
    THEN [raised |-> FALSE,
          rules |-> IF declarations = <<>> THEN outRules
                    ELSE outRules \o [s \in DOMAIN selectorList |->
                             [selector |-> selectorList[s],
                              declarations |-> declarations,
                              mediaQuery |-> currentMediaQuery]]]
    ELSE IF items[k].type = "declaration"
    THEN With(parseDeclaration(items[k].text), LAMBDA parsed :
             StyleItemsFrom(selectorList, items, k + 1,
                 IF parsed.ok
                 THEN SetDeclaration(declarations, parsed.property, parsed.value)
                 ELSE declarations,
                 outRules, currentMediaQuery))
    ELSE IF items[k].prelude = <<>>
    THEN StyleItemsFrom(selectorList, items, k + 1, declarations, outRules,
                        currentMediaQuery)
    ELSE IF items[k].prelude[1] = 64
    THEN With(StyleItemsFrom(selectorList, splitTopLevelBlockItems(items[k].body), 1,
                             <<>>, outRules,
                             NestedMediaQuery(items[k].prelude, currentMediaQuery)),
              LAMBDA nested :
                 IF nested.raised THEN nested
                 ELSE StyleItemsFrom(selectorList, items, k + 1, declarations,
                                     nested.rules, currentMediaQuery))
    ELSE With(expandNestedSelectors(selectorList, items[k].prelude), LAMBDA expanded :
             IF expanded.raised THEN [raised |-> TRUE, rules |-> outRules]
             ELSE IF expanded.selectors = <<>>
             THEN StyleItemsFrom(selectorList, items, k + 1, declarations, outRules,
                                 currentMediaQuery)
             ELSE With(StyleItemsFrom(expanded.selectors,
                                      splitTopLevelBlockItems(items[k].body), 1,
                                      <<>>, outRules, Null),
                       LAMBDA nested :
                          IF nested.raised THEN nested
                          ELSE StyleItemsFrom(selectorList, items, k + 1, declarations,
                                              nested.rules, currentMediaQuery)))

parseStyleBlock(selectorList, blockBody, outRules, currentMediaQuery) ==
    StyleItemsFrom(selectorList, splitTopLevelBlockItems(blockBody), 1, <<>>,
                   outRules, currentMediaQuery)

\* parseRulesRecursively, from position i on: the loop ends at the end of
\* the text, where no terminator is left, or at a block that is not closed
RECURSIVE ParseRulesFrom(_, _, _, _)
ParseRulesFrom(text, from, outRules, currentMediaQuery) ==
    With(SkipSpaces(text, from), LAMBDA i :
        IF i > Len(text) THEN [raised |-> FALSE, rules |-> outRules]
        ELSE With(findTopLevelTerminator(text, i), LAMBDA terminator :
            IF terminator.kind = "none" THEN [raised |-> FALSE, rules |-> outRules]
            ELSE IF terminator.kind = "statement"
            THEN ParseRulesFrom(text, terminator.index + 1, outRules, currentMediaQuery)
            ELSE With(findMatchingBrace(text, terminator.index), LAMBDA blockEnd :
                IF blockEnd = 0 THEN [raised |-> FALSE, rules |-> outRules]
                ELSE With(
                    IF StartsWith(Trim(SubSeq(text, i, terminator.index - 1)), <<64>>)
                    THEN ParseRulesFrom(SubSeq(text, terminator.index + 1, blockEnd - 1),
                             1, outRules,
                             NestedMediaQuery(SubSeq(text, i, terminator.index - 1),
                                              currentMediaQuery))
                    ELSE parseStyleBlock(
                             splitByComma(Trim(SubSeq(text, i, terminator.index - 1))),
                             SubSeq(text, terminator.index + 1, blockEnd - 1),
                             outRules, currentMediaQuery),
                    LAMBDA block :
                        IF block.raised THEN block
                        ELSE ParseRulesFrom(text, blockEnd + 1, block.rules,
                                            currentMediaQuery)))))

parseRulesRecursively(text, outRules, currentMediaQuery) ==
    ParseRulesFrom(text, 1, outRules, currentMediaQuery)

\* stripComments: /\/\*[\s\S]*?\*\//g replaced by nothing; a comment that is
\* not closed stays
RECURSIVE stripComments(_)
stripComments(source) ==
    LET opens == {i \in 1..(Len(source) - 1) : source[i] = 47 /\ source[i + 1] = 42}
        open == Least(opens)
        closes == {j \in (open + 2)..(Len(source) - 1) :
                      source[j] = 42 /\ source[j + 1] = 47}
    IN  IF opens = {} THEN source
        ELSE IF closes = {} THEN source
        ELSE SubSeq(source, 1, open - 1)
             \o stripComments(SubSeq(source, Least(closes) + 2, Len(source)))

\* parseCSS: the rules of the source (rawTokens is read off the rules); raised
\* is TRUE where an exception leaves parseCSS
parseCSS(source) == parseRulesRecursively(stripComments(source), <<>>, Null)

----------------------------------------------------------------------------
(* A source text, written piece by piece, and parseCSS over it *)

\* Pieces of CSS: two complete rules, and the ways a text goes wrong
CompleteRule == <<97, 123, 98, 58, 99, 125>>
SecondRule == <<100, 123, 101, 58, 102, 125>>
UnterminatedBlock == <<97, 123, 98, 58, 99>>
StrayClosingBrace == <<125>>
StrayOpeningBrace == <<123>>
OpenQuote == <<34>>
OpenComment == <<47, 42>>

WellFormedPieces == {CompleteRule, SecondRule}
MalformedPieces ==
    {UnterminatedBlock, StrayClosingBrace, StrayOpeningBrace, OpenQuote, OpenComment}

\* Preludes a text is nested under: a selector that repeats the nesting
\* selector & eight times, a plain selector, a media query
AmpersandPrelude == <<38, 38, 38, 38, 38, 38, 38, 38>>
PlainPrelude == <<97>>
MediaPrelude == <<64, 109, 101, 100, 105, 97, 32, 109>>

MaxPieces == 2
MaxAmpersandLevels == 10
MaxOtherLevels == 1

InitParse ==
    /\ NoPipeline
    /\ pc = "parsing"
    /\ reader = NoReader
    /\ hashes = NoHashes
    /\ intact = <<>>
    /\ manager = NoManager
    /\ runtime = NoRuntime
    /\ fallback = NoFallback
    /\ plugin = NoPlugin
    /\ parser = [NoParser EXCEPT !.stage = "writing"]

parseUnchanged ==
    UNCHANGED <<css, pc, nodes, manifests, codecVars, reader, hashes, intact,
                manager, runtime, fallback, plugin>>

\* The author appends a piece to a text that is not nested yet. complete is
\* the text as it stood before its first malformed piece.
Write ==
    /\ pc = "parsing"
    /\ parser.stage = "writing"
    /\ parser.written < MaxPieces
    /\ parser.ampersands + parser.others = 0
    /\ \E piece \in WellFormedPieces \cup MalformedPieces :
          parser' = [parser EXCEPT
              !.source = @ \o piece,
              !.written = @ + 1,
              !.complete = IF parser.complete = parser.source
                              /\ piece \in WellFormedPieces
                           THEN parser.source \o piece ELSE @]
    /\ parseUnchanged

\* The author nests the text in a block under a prelude
Nest ==
    /\ pc = "parsing"
    /\ parser.stage = "writing"
    /\ \E prelude \in {AmpersandPrelude, PlainPrelude, MediaPrelude} :
          /\ IF prelude = AmpersandPrelude
             THEN parser.ampersands < MaxAmpersandLevels
             ELSE parser.others < MaxOtherLevels
          /\ parser' = [parser EXCEPT
                 !.source = prelude \o <<123>> \o @ \o <<125>>,
                 !.complete = <<>>,
                 !.ampersands = IF prelude = AmpersandPrelude THEN @ + 1 ELSE @,
                 !.others = IF prelude = AmpersandPrelude THEN @ ELSE @ + 1]
    /\ parseUnchanged

\* parseCSS(source)
ParseCSS ==
    /\ pc = "parsing"
    /\ parser.stage = "writing"
    /\ With(parseCSS(parser.source), LAMBDA out :
          parser' = [parser EXCEPT !.stage = "parsed",
                                   !.raised = out.raised,
                                   !.rules = out.rules])
    /\ parseUnchanged

NextParse == Write \/ Nest \/ ParseCSS

SpecParse == InitParse /\ [][NextParse]_vars

\* The rules of the text before its first malformed piece are the first
\* rules of the whole text
EarlierRulesKept ==
    StartsWith(parser.rules, parseCSS(parser.complete).rules)

\* C15: parseCSS returns a rule list for every source text without raising,
\* and where the text goes wrong (a block that is not closed, a stray brace)
\* the rules parsed before that point are kept.
ParseNeverRaises ==
    parser.stage = "parsed" => ~parser.raised /\ EarlierRulesKept

\* Where no exception leaves parseCSS, the rules before the malformed piece
\* are kept
MalformedKeepsEarlierRules ==
    parser.stage = "parsed" /\ ~parser.raised => EarlierRulesKept

\* No exception leaves parseCSS while & selectors are nested less than
\* MaxAmpersandLevels deep
ParseNeverRaisesShallow ==
    parser.stage = "parsed" /\ parser.ampersands < MaxAmpersandLevels
        => ~parser.raised

\* A malformed text with a complete rule before the malformed piece
MalformedAfterRuleParsed ==
    /\ parser.stage = "parsed"
    /\ parser.complete # <<>>
    /\ parser.complete # parser.source
    /\ parser.rules # <<>>

----------------------------------------------------------------------------
(* SubscriptionManager: a page of three elements under two boundaries *)

\* depType of a dependency entry
PARENT_SIZE == 1
VIEWPORT == 2
FONT_METRICS == 3
ENV == 4
THEME == 5
CONTAINER == 6
USER_PREF == 7

\* The boundaries of the page by their hash, and the elements that carry them
Boundaries == {1, 2}
Elements == {"a1", "a2", "b1"}
BoundaryOf(element) == IF element = "b1" THEN 2 ELSE 1

\* element.parentElement: the three elements are children of one parent
parentElement(element) == "parent"

\* record.depEntries of the BOUNDARY record of a hash, as <<depType, propertyName>>
DepEntriesOf(hash) ==
    IF hash = 1
    THEN << <<PARENT_SIZE, "width">>, <<THEME, "--brand">>,
            <<USER_PREF, "prefers-contrast: more">> >>
    ELSE << <<VIEWPORT, "width">>, <<CONTAINER, "inline-size">>,
            <<FONT_METRICS, "font-size">>, <<ENV, "padding">>,
            <<THEME, "--brand">>, <<USER_PREF, "prefers-contrast: more">>,
            <<USER_PREF, "">> >>

\* getComputedStyle(document.documentElement).fontSize
FontSizes == {"16px", "20px"}

\* normaliseUserPreferenceQuery over the property names of the page; ""
\* stands for null
normaliseUserPreferenceQuery(propertyName) ==
    IF propertyName = "" THEN ""
    ELSE IF propertyName = "prefers-contrast: more" THEN "(prefers-contrast: more)"
    ELSE ""

\* Events between two frames are counted up to this many
MaxEventsCounted == 2

\* new SubscriptionManager(runtime, options), on a page whose animation
\* frame queue is empty
NewManager ==
    [stage |-> "constructed",
     elementRegistry |-> [h \in Boundaries |-> {}],
     containerToBoundaries |-> [c \in Elements \cup {"parent", "documentElement"} |-> {}],
     boundaryToContainers |-> [h \in Boundaries |-> {}],
     observed |-> {},
     themeBoundaries |-> {},
     fontMetricBoundaries |-> {},
     envBoundaries |-> {},
     userPrefTeardowns |-> [h \in Boundaries |-> {}],
     userPrefQueries |-> [h \in Boundaries |-> {}],
     dirtyBoundaries |-> <<>>,
     pendingFrame |-> 0,
     themeObserver |-> FALSE,
     fontMetricsObserver |-> FALSE,
     fontMetricsResizeHandler |-> FALSE,
     rootFontSize |-> "",
     envResizeHandler |-> FALSE,
     envOrientationHandler |-> FALSE,
     \* the page: its elements, its animation frame queue, the font size
     \* of its root
     page |-> Elements,
     rafQueue |-> 0,
     fontSize |-> "16px",
     \* runtime.invalidateBoundary: the calls made by the last frame or
     \* updateTheme, each with what getElements(hash) held at the call
     invalidated |-> <<>>,
     last |-> "none",
     reacted |-> FALSE,
     \* events since the last frame, and the events and the dirty boundaries
     \* the last frame found
     events |-> 0,
     batched |-> 0,
     found |-> <<>>]

\* dirtyBoundaries.add(hash): a Set keeps insertion order
AddDirty(dirty, hash) ==
    IF \E k \in DOMAIN dirty : dirty[k] = hash THEN dirty ELSE Append(dirty, hash)

\* dirtyBoundaries.add over a Set of hashes, taken in ascending order
RECURSIVE AddAllDirty(_, _)
AddAllDirty(dirty, hashSet) ==
    IF hashSet = {} THEN dirty
    ELSE AddAllDirty(AddDirty(dirty, Least(hashSet)), hashSet \ {Least(hashSet)})

\* scheduleUpdate without the pendingFrame test: a frame for every event
scheduleUpdateEveryTime(m) ==
    [m EXCEPT !.rafQueue = @ + 1, !.pendingFrame = m.rafQueue + 1]

\* scheduleUpdate: requestAnimationFrame returns the length of the queue
\* after the push, as the queue of the tests does
scheduleUpdate(m) ==
    IF m.pendingFrame # 0 THEN m
    ELSE [m EXCEPT !.rafQueue = @ + 1, !.pendingFrame = m.rafQueue + 1]

\* markDirtyAll(hashes), hashes a Set
markDirtyAll(m, hashSet) ==
    scheduleUpdate([m EXCEPT !.dirtyBoundaries = AddAllDirty(@, hashSet)])

\* markDirty without scheduleUpdate
markDirtyUnscheduled(m, hash) ==
    [m EXCEPT !.dirtyBoundaries = AddDirty(@, hash)]

\* markDirty(hash)
markDirty(m, hash) ==
    scheduleUpdate([m EXCEPT !.dirtyBoundaries = AddDirty(@, hash)])

\* observeContainer(container, hash)
observeContainer(m, container, hash) ==
    [m EXCEPT !.containerToBoundaries[container] = @ \cup {hash},
              !.observed = IF m.containerToBoundaries[container] = {}
                           THEN @ \cup {container} ELSE @,
              !.boundaryToContainers[hash] = @ \cup {container}]

\* subscribeTheme(hash)
subscribeTheme(m, hash) ==
    [m EXCEPT !.themeBoundaries = @ \cup {hash}, !.themeObserver = TRUE]

\* subscribeFontMetrics(hash)
subscribeFontMetrics(m, hash) ==
    [m EXCEPT !.fontMetricBoundaries = @ \cup {hash},
              !.rootFontSize = IF @ = "" THEN m.fontSize ELSE @,
              !.fontMetricsObserver = TRUE,
              !.fontMetricsResizeHandler = TRUE]

\* subscribeEnv(hash)
subscribeEnv(m, hash) ==
    [m EXCEPT !.envBoundaries = @ \cup {hash},
              !.envResizeHandler = TRUE,
              !.envOrientationHandler = TRUE]

\* subscribeUserPreference(hash, propertyName)
subscribeUserPreference(m, hash, propertyName) ==
    With(normaliseUserPreferenceQuery(propertyName), LAMBDA query :
        IF query = "" THEN m
        ELSE IF query \in m.userPrefQueries[hash] THEN m
        ELSE [m EXCEPT !.userPrefQueries[hash] = @ \cup {query},
                       !.userPrefTeardowns[hash] = @ \cup {query}])

\* mount: the subscription one dependency entry asks for
Subscribe(m, hash, element, dep) ==
    IF dep[1] = PARENT_SIZE
    THEN observeContainer(observeContainer(m, parentElement(element), hash),
                          element, hash)
    ELSE IF dep[1] = CONTAINER THEN observeContainer(m, parentElement(element), hash)
    ELSE IF dep[1] = VIEWPORT THEN observeContainer(m, "documentElement", hash)
    ELSE IF dep[1] = THEME THEN subscribeTheme(m, hash)
    ELSE IF dep[1] = FONT_METRICS THEN subscribeFontMetrics(m, hash)
    ELSE IF dep[1] = ENV THEN subscribeEnv(m, hash)
    ELSE IF dep[1] = USER_PREF THEN subscribeUserPreference(m, hash, dep[2])
    ELSE m

RECURSIVE SubscribeFrom(_, _, _, _, _)
SubscribeFrom(m, hash, element, depEntries, k) ==
    IF k > Len(depEntries) THEN m
    ELSE SubscribeFrom(Subscribe(m, hash, element, depEntries[k]), hash, element,
                       depEntries, k + 1)

\* mount(hash, element, record)
mount(m, hash, element, depEntries) ==
    SubscribeFrom([m EXCEPT !.elementRegistry[hash] = @ \cup {element}],
                  hash, element, depEntries, 1)

\* teardownFontMetrics
teardownFontMetrics(m) ==
    [m EXCEPT !.fontMetricsObserver = FALSE, !.fontMetricsResizeHandler = FALSE,
              !.rootFontSize = ""]

\* teardownEnv
teardownEnv(m) ==
    [m EXCEPT !.envResizeHandler = FALSE, !.envOrientationHandler = FALSE]

\* unmount(hash, element)
unmount(m, hash, element) ==
    IF m.elementRegistry[hash] \ {element} # {}
    THEN [m EXCEPT !.elementRegistry[hash] = @ \ {element}]
    ELSE With([m EXCEPT
                  !.elementRegistry[hash] = {},
                  !.dirtyBoundaries = SelectSeq(@, LAMBDA h : h # hash),
                  !.themeBoundaries = @ \ {hash},
                  !.fontMetricBoundaries = @ \ {hash},
                  !.envBoundaries = @ \ {hash},
                  !.containerToBoundaries =
                      [c \in DOMAIN @ |->
                          IF c \in m.boundaryToContainers[hash]
                          THEN @[c] \ {hash} ELSE @[c]],
                  !.observed =
                      @ \ {c \in m.boundaryToContainers[hash] :
                              m.containerToBoundaries[c] \subseteq {hash}},
                  !.boundaryToContainers[hash] = {},
                  !.userPrefTeardowns[hash] = {},
                  !.userPrefQueries[hash] = {}],
              LAMBDA gone :
                  With(IF gone.fontMetricBoundaries = {}
                       THEN teardownFontMetrics(gone) ELSE gone,
                       LAMBDA torn :
                           IF torn.envBoundaries = {} THEN teardownEnv(torn)
                           ELSE torn))

\* flush, from entry k of the batch on: runtime.invalidateBoundary(hash) is
\* called for every hash of the batch; it reads getElements(hash) and ends
\* in the onInvalidate callback of the host, which on the boundary
\* reaction.on unmounts the elements reaction.unmount.
RECURSIVE UnmountAll(_, _)
UnmountAll(m, elements) ==
    IF elements = {} THEN m
    ELSE With(CHOOSE e \in elements : TRUE, LAMBDA e :
             UnmountAll(unmount(m, BoundaryOf(e), e), elements \ {e}))

RECURSIVE FlushFrom(_, _, _, _)
FlushFrom(m, batch, k, reaction) ==
    IF k > Len(batch) THEN m
    ELSE With([m EXCEPT !.invalidated =
                  Append(@, [hash |-> batch[k],
                             elements |-> m.elementRegistry[batch[k]]])],
              LAMBDA called :
                  FlushFrom(IF reaction.on = batch[k]
                            THEN UnmountAll(called, reaction.unmount)
                            ELSE called,
                            batch, k + 1, reaction))

\* flush()
flush(m, reaction) ==
    IF m.dirtyBoundaries = <<>> THEN m
    ELSE FlushFrom([m EXCEPT !.dirtyBoundaries = <<>>], m.dirtyBoundaries, 1, reaction)

\* The host does nothing in onInvalidate
NoReaction == [on |-> 0, unmount |-> {}]

\* What the host may do in onInvalidate: nothing, or unmount one element
\* when one boundary is invalidated
Reactions ==
    {NoReaction} \cup
    {[on |-> h, unmount |-> {e}] : h \in Boundaries, e \in Elements}

\* handleResize(entries): targets are the containers of the entries
RECURSIVE handleResize(_, _)
handleResize(m, targets) ==
    IF targets = {} THEN m
    ELSE With(CHOOSE c \in targets : TRUE, LAMBDA c :
             handleResize(IF m.containerToBoundaries[c] = {} THEN m
                          ELSE markDirtyAll(m, m.containerToBoundaries[c]),
                          targets \ {c}))

\* maybeMarkFontMetricDirty
maybeMarkFontMetricDirty(m) ==
    IF m.fontSize # m.rootFontSize
    THEN markDirtyAll([m EXCEPT !.rootFontSize = m.fontSize], m.fontMetricBoundaries)
    ELSE m

\* One more event since the last frame
Counted(m) ==
    [m EXCEPT !.events = IF @ < MaxEventsCounted THEN @ + 1 ELSE @]

----------------------------------------------------------------------------
(* The page: mounts, unmounts, dependency events and animation frames *)

InitManager ==
    /\ NoPipeline
    /\ pc = "page"
    /\ reader = NoReader
    /\ hashes = NoHashes
    /\ intact = <<>>
    /\ parser = NoParser
    /\ runtime = NoRuntime
    /\ fallback = NoFallback
    /\ plugin = NoPlugin
    /\ manager = NewManager

managerUnchanged ==
    UNCHANGED <<css, pc, nodes, manifests, codecVars, reader, hashes, intact,
                parser, runtime, fallback, plugin>>

\* mount(hash, element, record) for an element of the page
Mount ==
    /\ pc = "page"
    /\ \E element \in manager.page :
          manager' = mount(manager, BoundaryOf(element), element,
                           DepEntriesOf(BoundaryOf(element)))
    /\ managerUnchanged

\* unmount(hash, element)
Unmount ==
    /\ pc = "page"
    /\ \E element \in manager.page :
          manager' = unmount(manager, BoundaryOf(element), element)
    /\ managerUnchanged

\* The ResizeObserver reports observed containers that changed size
Resize ==
    /\ pc = "page"
    /\ \E targets \in SUBSET manager.observed :
          /\ targets # {}
          /\ manager' = handleResize(Counted(manager), targets)
    /\ managerUnchanged

\* An attribute of the root element changes, and the root font size with
\* it or not: the theme observer hears data-theme and class, the font
\* metrics observer style and class
RootMutation ==
    /\ pc = "page"
    /\ \E attribute \in {"data-theme", "class", "style"}, size \in FontSizes :
          /\ attribute = "data-theme" => size = manager.fontSize
          /\ With([Counted(manager) EXCEPT !.fontSize = size], LAMBDA page :
             With(IF page.themeObserver /\ attribute \in {"data-theme", "class"}
                  THEN markDirtyAll(page, page.themeBoundaries) ELSE page,
                  LAMBDA themed :
                     manager' =
                         IF themed.fontMetricsObserver /\ attribute \in {"style", "class"}
                         THEN maybeMarkFontMetricDirty(themed) ELSE themed))
    /\ managerUnchanged

\* The window is resized, and the root font size with it or not
WindowResize ==
    /\ pc = "page"
    /\ \E size \in FontSizes :
          With([Counted(manager) EXCEPT !.fontSize = size], LAMBDA page :
          With(IF page.fontMetricsResizeHandler
               THEN maybeMarkFontMetricDirty(page) ELSE page,
               LAMBDA measured :
                  manager' = IF measured.envResizeHandler
                             THEN markDirtyAll(measured, measured.envBoundaries)
                             ELSE measured))
    /\ managerUnchanged

\* screen.orientation changes
OrientationChange ==
    /\ pc = "page"
    /\ manager' = IF manager.envOrientationHandler
                  THEN markDirtyAll(Counted(manager), manager.envBoundaries)
                  ELSE Counted(manager)
    /\ managerUnchanged

\* A media query list changes: every listener on it calls markDirty(h)
RECURSIVE MarkEach(_, _)
MarkEach(m, hashSet) ==
    IF hashSet = {} THEN m
    ELSE MarkEach(markDirty(m, Least(hashSet)), hashSet \ {Least(hashSet)})

MatchMediaChange ==
    /\ pc = "page"
    /\ manager' = MarkEach(Counted(manager),
                     {h \in Boundaries :
                         "(prefers-contrast: more)" \in manager.userPrefTeardowns[h]})
    /\ managerUnchanged

\* The oldest animation frame callback runs: pendingFrame = 0, flush()
RunFrame ==
    /\ pc = "page"
    /\ manager.rafQueue > 0
    /\ \E reaction \in Reactions :
          manager' = flush([manager EXCEPT
                               !.rafQueue = @ - 1,
                               !.pendingFrame = 0,
                               !.invalidated = <<>>,
                               !.last = "frame",
                               !.reacted = \E k \in DOMAIN manager.dirtyBoundaries :
                                              manager.dirtyBoundaries[k] = reaction.on,
                               !.batched = manager.events,
                               !.events = 0,
                               !.found = manager.dirtyBoundaries],
                           reaction)
    /\ managerUnchanged

\* updateTheme(tokenMap): the theme boundaries are flushed at once
UpdateTheme ==
    /\ pc = "page"
    /\ \E reaction \in Reactions :
          With([manager EXCEPT
                   !.dirtyBoundaries = AddAllDirty(@, manager.themeBoundaries),
                   !.invalidated = <<>>,
                   !.last = "updateTheme"],
               LAMBDA themed :
                  manager' = flush([themed EXCEPT
                                       !.reacted = \E k \in DOMAIN themed.dirtyBoundaries :
                                                      themed.dirtyBoundaries[k] = reaction.on],
                                   reaction))
    /\ managerUnchanged

NextManager ==
    \/ Mount
    \/ Unmount
    \/ Resize
    \/ RootMutation
    \/ WindowResize
    \/ OrientationChange
    \/ MatchMediaChange
    \/ RunFrame
    \/ UpdateTheme

SpecManager == InitManager /\ [][NextManager]_vars

\* The hashes runtime.invalidateBoundary was called with, in order
InvalidatedHashes == [k \in DOMAIN manager.invalidated |-> manager.invalidated[k].hash]

\* C16: invalidation is batched per animation frame: whatever events arrive
\* between two frames, at most one frame callback is pending, and the frame
\* that runs invalidates every dirty boundary exactly once.
OneFramePerBatch ==
    /\ manager.rafQueue <= 1
    /\ manager.last = "frame" => InvalidatedHashes = manager.found

\* A frame has run that found two boundaries dirty after two or more events
FrameAfterSeveralEvents ==
    /\ manager.last = "frame"
    /\ manager.batched >= 2
    /\ Len(manager.found) = 2
    /\ Len(manager.invalidated) = 2

\* The subscriptions mount sets up for one dependency entry of a boundary
\* are in place for the elements mounted
Active(m, hash, dep) ==
    LET watched(c) == c \in m.observed /\ hash \in m.containerToBoundaries[c]
    IN  IF dep[1] = PARENT_SIZE
        THEN \A e \in m.elementRegistry[hash] : watched(parentElement(e)) /\ watched(e)
        ELSE IF dep[1] = CONTAINER
        THEN \A e \in m.elementRegistry[hash] : watched(parentElement(e))
        ELSE IF dep[1] = VIEWPORT THEN watched("documentElement")
        ELSE IF dep[1] = THEME THEN hash \in m.themeBoundaries /\ m.themeObserver
        ELSE IF dep[1] = FONT_METRICS
        THEN /\ hash \in m.fontMetricBoundaries
             /\ m.fontMetricsObserver
             /\ m.fontMetricsResizeHandler
        ELSE IF dep[1] = ENV
        THEN /\ hash \in m.envBoundaries
             /\ m.envResizeHandler
             /\ m.envOrientationHandler
        ELSE IF dep[1] = USER_PREF
        THEN \/ normaliseUserPreferenceQuery(dep[2]) = ""
             \/ normaliseUserPreferenceQuery(dep[2]) \in m.userPrefTeardowns[hash]
        ELSE TRUE

\* Every boundary with an element mounted has its subscriptions
MountedStaysSubscribed ==
    \A h \in Boundaries :
        manager.elementRegistry[h] # {} =>
            \A k \in DOMAIN DepEntriesOf(h) : Active(manager, h, DepEntriesOf(h)[k])

\* No call of runtime.invalidateBoundary was for a boundary without elements
NoneInvalidatedUnmounted ==
    \A k \in DOMAIN manager.invalidated : manager.invalidated[k].elements # {}

\* C18: once the last element of a boundary is unmounted the boundary is not
\* invalidated again until it is mounted again, neither by a later event nor
\* by a frame that was pending; while an element of it is mounted its
\* subscriptions stay active.
UnmountedNeverInvalidated ==
    NoneInvalidatedUnmounted /\ MountedStaysSubscribed

\* The same while the host does not unmount from inside onInvalidate
UnmountedNeverInvalidatedOutsideFlush ==
    ~manager.reacted => NoneInvalidatedUnmounted /\ MountedStaysSubscribed

\* A frame that was pending when the last element of a boundary was
\* unmounted has run, and another boundary was invalidated by it
FrameAfterLastUnmount ==
    /\ manager.last = "frame"
    /\ ~manager.reacted
    /\ \E h \in Boundaries :
          /\ manager.elementRegistry[h] = {}
          /\ manager.found # <<>>
          /\ \A k \in DOMAIN manager.found : manager.found[k] # h

----------------------------------------------------------------------------
(* SOMRuntime: a page whose records include NONDETERMINISTIC rules *)

\* loader.get(selector) over the selectors of the page: a STATIC rule, a
\* BOUNDARY whose subgraph holds a NONDETERMINISTIC rule, two
\* NONDETERMINISTIC rules, and a selector the binary does not hold
RuntimeRecordOf(selector) ==
    IF selector = ".btn" THEN [type |-> "STATIC", subgraph |-> {}]
    ELSE IF selector = ".card" THEN [type |-> "BOUNDARY", subgraph |-> {".list"}]
    ELSE IF selector \in {".list", ".tabs"}
    THEN [type |-> "NONDETERMINISTIC", subgraph |-> {}]
    ELSE [type |-> "NONE", subgraph |-> {}]

\* The elements of the page, in document order, and selectorResolver over
\* their data-som attribute
PageElements == <<"btnEl", "listEl", "cardEl", "tabsEl", "ghostEl">>

selectorResolver(element) ==
    IF element = "btnEl" THEN ".btn"
    ELSE IF element = "listEl" THEN ".list"
    ELSE IF element = "cardEl" THEN ".card"
    ELSE IF element = "tabsEl" THEN ".tabs"
    ELSE ".ghost"

\* The selectors the binary holds; a record's hash stands for its selector
RuntimeSelectors == {".btn", ".card", ".list", ".tabs"}

\* Calls that asked for the fallback are counted up to this many
MaxRequestsCounted == 3

\* new SOMRuntime(loader, options) on a page whose head holds no link yet.
\* links are the link elements appended to document.head;
\* mountedHashByElement holds "undefined" for an element without an entry;
\* elementRegistry is the registry of the runtime's subscription manager;
\* applying is the
\* position of a running applyAll (0: none), awaiting whether it waits for
\* the fallback promise.
NewRuntime ==
    [stage |-> "constructed",
     fallbackLoadedFlag |-> FALSE,
     fallbackPromise |-> "null",
     links |-> 0,
     mountedHashByElement |-> [e \in SeqToSet(PageElements) |-> "undefined"],
     elementRegistry |-> [s \in RuntimeSelectors |-> {}],
     applying |-> 0,
     awaiting |-> FALSE,
     warned |-> FALSE,
     requests |-> 0,
     \* the element the last call was unmountElement for, or "none"
     unmounted |-> "none"]

\* preloadFallback without the fallbackPromise test: a link for every call
\* made before the stylesheet has loaded
preloadFallbackEveryTime(rt) ==
    IF rt.fallbackLoadedFlag THEN rt
    ELSE [rt EXCEPT !.fallbackPromise = "pending", !.links = @ + 1]

\* preloadFallback()
preloadFallback(rt) ==
    IF rt.fallbackLoadedFlag THEN rt
    ELSE IF rt.fallbackPromise # "null" THEN rt
    ELSE [rt EXCEPT !.fallbackPromise = "pending", !.links = @ + 1]

\* One more call that found fallbackLoadedFlag false and asked for the fallback
Requested(rt) ==
    [rt EXCEPT !.requests = IF @ < MaxRequestsCounted THEN @ + 1 ELSE @]

\* invalidateBoundary(hash), as far as the fallback goes: the first member
\* of the subgraph that is NONDETERMINISTIC and has elements asks for it,
\* and so does every later one while the flag is false
RECURSIVE InvalidateMembers(_, _)
InvalidateMembers(rt, members) ==
    IF members = {} THEN rt
    ELSE With(CHOOSE member \in members : TRUE, LAMBDA member :
             InvalidateMembers(
                 IF /\ member \in RuntimeSelectors
                    /\ rt.elementRegistry[member] # {}
                    /\ RuntimeRecordOf(member).type = "NONDETERMINISTIC"
                    /\ ~rt.fallbackLoadedFlag
                 THEN preloadFallback(Requested(rt))
                 ELSE rt,
                 members \ {member}))

invalidateBoundary(rt, selector) ==
    IF RuntimeRecordOf(selector).type # "BOUNDARY" THEN rt
    ELSE InvalidateMembers(rt, RuntimeRecordOf(selector).subgraph)

\* applyStyles(selector, element), up to its await
applyStyles(rt, selector, element) ==
    With(RuntimeRecordOf(selector), LAMBDA record :
        IF record.type = "NONE" THEN [rt EXCEPT !.warned = TRUE]
        ELSE With([rt EXCEPT !.mountedHashByElement[element] = selector,
                             !.elementRegistry[selector] = @ \cup {element}],
                  LAMBDA mounted :
            IF record.type = "STATIC" THEN mounted
            ELSE IF record.type = "BOUNDARY" THEN invalidateBoundary(mounted, selector)
            ELSE IF ~mounted.fallbackLoadedFlag
            THEN preloadFallback(Requested(mounted))
            ELSE mounted))

InitRuntime ==
    /\ NoPipeline
    /\ pc = "runtime"
    /\ reader = NoReader
    /\ hashes = NoHashes
    /\ intact = <<>>
    /\ parser = NoParser
    /\ manager = NoManager
    /\ runtime = NewRuntime
    /\ fallback = NoFallback
    /\ plugin = NoPlugin

runtimeUnchanged ==
    UNCHANGED <<css, pc, nodes, manifests, codecVars, reader, hashes, intact,
                parser, manager, fallback, plugin>>

\* runtime.preloadFallback()
PreloadFallback ==
    /\ pc = "runtime"
    /\ runtime' = preloadFallback(Requested(runtime))
    /\ runtimeUnchanged

\* The link has loaded: link.onload
LinkLoads ==
    /\ pc = "runtime"
    /\ runtime.fallbackPromise = "pending"
    /\ runtime' = [runtime EXCEPT !.fallbackLoadedFlag = TRUE,
                                  !.fallbackPromise = "fulfilled"]
    /\ runtimeUnchanged

\* The link has failed: link.onerror
LinkFails ==
    /\ pc = "runtime"
    /\ runtime.fallbackPromise = "pending"
    /\ runtime' = [runtime EXCEPT !.fallbackPromise = "rejected"]
    /\ runtimeUnchanged

\* runtime.applyStyles(selector, element) for an element of the page
ApplyStyles ==
    /\ pc = "runtime"
    /\ \E k \in DOMAIN PageElements :
          runtime' = applyStyles(runtime, selectorResolver(PageElements[k]), PageElements[k])
    /\ runtimeUnchanged

\* runtime.invalidateBoundary(hash)
InvalidateBoundary ==
    /\ pc = "runtime"
    /\ \E selector \in {".btn", ".card", ".list", ".tabs"} :
          runtime' = invalidateBoundary(runtime, selector)
    /\ runtimeUnchanged

\* runtime.applyAll(document) is called
ApplyAll ==
    /\ pc = "runtime"
    /\ runtime.applying = 0
    /\ runtime' = [runtime EXCEPT !.applying = 1]
    /\ runtimeUnchanged

\* applyAll goes on: it waits while the fallback promise is pending, ends
\* where the promise was rejected, and else applies the next element
ApplyAllStep ==
    /\ pc = "runtime"
    /\ runtime.applying > 0
    /\ ~(runtime.awaiting /\ runtime.fallbackPromise = "pending")
    /\ IF runtime.awaiting
       THEN runtime' = [runtime EXCEPT
                !.awaiting = FALSE,
                !.applying = IF runtime.fallbackPromise = "rejected"
                                \/ @ = Len(PageElements)
                             THEN 0 ELSE @ + 1]
       ELSE With(applyStyles(runtime, selectorResolver(PageElements[runtime.applying]),
                             PageElements[runtime.applying]),
                 LAMBDA applied :
                    runtime' =
                        IF /\ RuntimeRecordOf(selectorResolver(PageElements[runtime.applying])).type
                                = "NONDETERMINISTIC"
                           /\ ~runtime.fallbackLoadedFlag
                        THEN [applied EXCEPT !.awaiting = TRUE]
                        ELSE [applied EXCEPT
                                 !.applying = IF @ = Len(PageElements) THEN 0 ELSE @ + 1])
    /\ runtimeUnchanged

NextRuntime ==
    \/ PreloadFallback
    \/ LinkLoads
    \/ LinkFails
    \/ ApplyStyles
    \/ InvalidateBoundary
    \/ ApplyAll
    \/ ApplyAllStep

SpecRuntime == InitRuntime /\ [][NextRuntime]_vars

\* C17: the fallback stylesheet is loaded at most once per runtime: whatever
\* applyStyles, applyAll, invalidateBoundary and preloadFallback calls touch
\* NONDETERMINISTIC records, at most one link is appended to the head.
FallbackLinkOnce == runtime.links <= 1

\* Several calls have asked for the fallback and one link is in the head
FallbackAskedTwice ==
    /\ runtime.requests >= 2
    /\ runtime.links = 1

----------------------------------------------------------------------------
(* The fallback emitter: collectFallbackRules and emitFallbackCss over the
   nodes analyseCSS returned *)

\* A declaration value of a ComponentNode is the string the parser read
readRawDeclarationValue(value) == value.raw

\* A ComponentNode has no properties Map and its declarations are an object:
\* the entries of node.declarations, each value trimmed, a nameless one left out
collectDeclarations(node) ==
    LET named == SelectSeq(node.declarations, LAMBDA d : d.property # <<>>)
    IN  [i \in DOMAIN named |->
            [name |-> named[i].property,
             value |-> Trim(readRawDeclarationValue(named[i].value))]]

isNondeterministic(node) == node.finalClass = "BIND_NONDETERMINISTIC"

\* Map.prototype.set for each entry: a name that is there keeps its place and
\* takes the new value, a new name goes last
RECURSIVE SetEach(_, _)
SetEach(existing, declarations) ==
    IF declarations = <<>> THEN existing
    ELSE LET d == Head(declarations)
             at == {i \in DOMAIN existing : existing[i].name = d.name}
         IN  SetEach(IF at = {} THEN Append(existing, d)
                     ELSE [i \in DOMAIN existing |->
                              IF i \in at THEN d ELSE existing[i]],
                     Tail(declarations))

\* The loop of collectFallbackRules: mergedBySelector, in insertion order
RECURSIVE MergeBySelector(_, _, _)
MergeBySelector(ns, k, mergedBySelector) ==
    IF k > Len(ns) THEN mergedBySelector
    ELSE LET node == ns[k]
             selector == Trim(node.selector)
             at == {i \in DOMAIN mergedBySelector :
                       mergedBySelector[i].selector = selector}
             existing == IF at = {} THEN <<>>
                         ELSE mergedBySelector[CHOOSE i \in at : TRUE].declarations
             merged == SetEach(existing, collectDeclarations(node))
         IN  IF ~isNondeterministic(node) \/ selector = <<>>
             THEN MergeBySelector(ns, k + 1, mergedBySelector)
             ELSE MergeBySelector(ns, k + 1,
                     IF at = {}
                     THEN Append(mergedBySelector,
                                 [selector |-> selector, declarations |-> merged])
                     ELSE [i \in DOMAIN mergedBySelector |->
                              IF i \in at
                              THEN [selector |-> selector, declarations |-> merged]
                              ELSE mergedBySelector[i]])

\* The comparator of sortRulesForBinaryParity: by fnv1a32 of the selector,
\* then by the selector
FallbackRuleBefore(a, b) ==
    LET ha == fnv1a32(a.selector)
        hb == fnv1a32(b.selector)
    IN  IF ha # hb THEN U32Less(ha, hb) ELSE BytesLess(a.selector, b.selector)

RECURSIVE sortRulesForBinaryParity(_)
sortRulesForBinaryParity(rules) ==
    IF rules = <<>> THEN <<>>
    ELSE LET first == CHOOSE i \in DOMAIN rules :
                          \A j \in DOMAIN rules :
                              j = i \/ rules[j].selector = rules[i].selector
                                    \/ FallbackRuleBefore(rules[i], rules[j])
         IN  <<rules[first]>>
             \o sortRulesForBinaryParity(
                    [i \in 1..(Len(rules) - 1) |->
                        IF i < first THEN rules[i] ELSE rules[i + 1]])

collectFallbackRules(ns) == sortRulesForBinaryParity(MergeBySelector(ns, 1, <<>>))

\* /* binary-som fallback.css (NONDETERMINISTIC selectors only) */
FallbackBanner ==
    <<47, 42, 32, 98, 105, 110, 97, 114, 121, 45, 115, 111, 109, 32, 102, 97, 108, 108, 98, 97, 99, 107, 46, 99, 115, 115, 32, 40, 78, 79, 78, 68, 69, 84, 69, 82, 77, 73, 78, 73, 83, 84, 73, 67, 32, 115, 101, 108, 101, 99, 116, 111, 114, 115, 32, 111, 110, 108, 121, 41, 32, 42, 47>>

\* "selector {"
BlockOpening(selector) == selector \o <<32, 123>>

\* "  name: value;"
DeclarationLine(d) == <<32, 32>> \o d.name \o <<58, 32>> \o d.value \o <<59>>

\* The lines of one rule
BlockLines(rule) ==
    <<BlockOpening(rule.selector)>>
    \o [i \in DOMAIN rule.declarations |-> DeclarationLine(rule.declarations[i])]
    \o <<<<125>>>>

RECURSIVE FallbackLines(_)
FallbackLines(rules) ==
    IF rules = <<>> THEN <<>>
    ELSE BlockLines(Head(rules)) \o FallbackLines(Tail(rules))

RECURSIVE CountDeclarations(_)
CountDeclarations(rules) ==
    IF rules = <<>> THEN 0
    ELSE Len(Head(rules).declarations) + CountDeclarations(Tail(rules))

\* emitFallbackCss with its default options: the css is these lines, each
\* followed by a line feed
emitFallbackCss(ns) ==
    With(collectFallbackRules(ns), LAMBDA rules :
    [stage |-> "emitted",
     lines |-> <<FallbackBanner>> \o FallbackLines(rules),
     rules |-> rules,
     stats |-> [sourceNondeterministicNodes |->
                    Len(SelectSeq(ns, isNondeterministic)),
                ruleCount |-> Len(rules),
                declarationCount |-> CountDeclarations(rules)]])

----------------------------------------------------------------------------
(* The fallback of a stylesheet as a state machine *)

\* .a:first-child
FirstChild == <<46, 97, 58, 102, 105, 114, 115, 116, 45, 99, 104, 105, 108, 100>>

\* Stylesheets with structural selectors, selectors declared twice, custom
\* properties, and rules of the other classes
FallbackStylesheetRules ==
    { Rule(<<46, 97>>, <<Decl(Color, White)>>),
      Rule(<<46, 97, 32, 46, 98>>, <<Decl(Width, HalfParent)>>),
      Rule(FirstChild, <<Decl(Width, HalfParent)>>),
      Rule(FirstChild, <<Decl(Color, White)>>),
      Rule(FirstChild, <<Decl(<<45, 45, 99>>, BrandBlue), Decl(Color, VarC)>>),
      Rule(FirstChild \o <<32, 46, 98>>, <<Decl(Color, White)>>) }

InitFallback ==
    /\ css \in Stylesheets(FallbackStylesheetRules)
    /\ pc = "parsed"
    /\ nodes = <<>>
    /\ manifests = <<>>
    /\ pool = NewPool
    /\ otherPool = NewPool
    /\ binary = <<>>
    /\ loader = NoLoader
    /\ result = NoResult
    /\ heap = NoHeap
    /\ NoClient

\* emitFallbackCss(analyseCSS(css))
EmitFallback ==
    /\ pc = "analysed"
    /\ fallback.stage = "idle"
    /\ fallback' = emitFallbackCss(nodes)
    /\ UNCHANGED <<css, pc, nodes, manifests, codecVars, reader, hashes, intact,
                   parser, manager, runtime, plugin>>

NextFallback == Next \/ EmitFallback

SpecFallback == InitFallback /\ [][NextFallback]_vars

----------------------------------------------------------------------------
(* Properties of the fallback *)

\* The selectors of the nodes whose final class is NONDETERMINISTIC
NondeterministicSelectors ==
    {nodes[i].selector :
        i \in {j \in DOMAIN nodes : nodes[j].finalClass = NONDETERMINISTIC}}

\* The lines of the fallback CSS that open a block for a selector
BlocksOf(selector) ==
    {i \in DOMAIN fallback.lines : fallback.lines[i] = BlockOpening(selector)}

\* The declarations of the source rules sharing a selector, merged in source
\* order; custom properties among them or not
RECURSIVE MergedSourceDeclarations(_, _, _)
MergedSourceDeclarations(sheet, selector, customToo) ==
    IF sheet = <<>> THEN <<>>
    ELSE LET rule == sheet[Len(sheet)]
             kept == SelectSeq(rule.declarations,
                               LAMBDA d : customToo \/ ~IsCustomProperty(d.property))
             own == [i \in DOMAIN kept |->
                        [name |-> kept[i].property, value |-> kept[i].value.raw]]
             before == MergedSourceDeclarations(SubSeq(sheet, 1, Len(sheet) - 1),
                                                selector, customToo)
         IN  IF rule.selector = selector THEN SetEach(before, own) ELSE before

\* One block for every selector whose final class is NONDETERMINISTIC, none
\* for a selector of another class
OneBlockPerNondeterministicSelector ==
    /\ \A i \in DOMAIN css :
          Cardinality(BlocksOf(css[i].selector))
              = IF css[i].selector \in NondeterministicSelectors THEN 1 ELSE 0
    /\ {fallback.rules[i].selector : i \in DOMAIN fallback.rules}
          = NondeterministicSelectors
    /\ Len(fallback.rules) = Cardinality(NondeterministicSelectors)

\* C19: the fallback CSS holds exactly the rules whose final class is
\* NONDETERMINISTIC: each such selector opens exactly one block, whose
\* declarations are those of the source rules sharing the selector, merged,
\* and no selector of another class opens a block.
FallbackIsTheNondeterministicRules ==
    fallback.stage = "emitted" =>
        /\ OneBlockPerNondeterministicSelector
        /\ \A i \in DOMAIN fallback.rules :
              fallback.rules[i].declarations
                  = MergedSourceDeclarations(css, fallback.rules[i].selector, TRUE)

\* What holds of the blocks: one per NONDETERMINISTIC selector and none for
\* another class
FallbackSelectorsAreTheNondeterministic ==
    fallback.stage = "emitted" => OneBlockPerNondeterministicSelector

\* What holds of the declarations: each block has the merged declarations of
\* its source rules that are not custom properties
FallbackKeepsStyleDeclarations ==
    fallback.stage = "emitted" =>
        \A i \in DOMAIN fallback.rules :
            fallback.rules[i].declarations
                = MergedSourceDeclarations(css, fallback.rules[i].selector, FALSE)

\* A fallback emitted for a stylesheet that declares a NONDETERMINISTIC
\* selector twice beside a rule of another class
FallbackOfSelectorDeclaredTwice ==
    /\ fallback.stage = "emitted"
    /\ \E i, j \in DOMAIN css :
          i # j /\ css[i].selector = css[j].selector
                /\ css[i].selector \in NondeterministicSelectors
                /\ css[i].declarations # css[j].declarations
    /\ \E i \in DOMAIN nodes : nodes[i].finalClass # NONDETERMINISTIC
    /\ fallback.stats.ruleCount >= 1

\* A fallback emitted for a NONDETERMINISTIC rule that declares a custom
\* property
FallbackOfRuleWithCustomProperty ==
    /\ fallback.stage = "emitted"
    /\ \E i \in DOMAIN css :
          /\ css[i].selector \in NondeterministicSelectors
          /\ \E k \in DOMAIN css[i].declarations :
                IsCustomProperty(css[i].declarations[k].property)

----------------------------------------------------------------------------
(* The cycle break of the contamination pass *)

\* The rules at which resolveFinalClass found itself already visiting
CycleDetectedAt(n) ==
    \E k \in DOMAIN n.warnings :
        /\ n.warnings[k].type = "DEP_WARNING"
        /\ n.warnings[k].msg = "effective-parent cycle"

\* The rules on the cycle of effective parents through a rule
CycleThrough(ns, n) ==
    IF OnEffectiveParentCycle(ns, n) THEN EffectiveAncestors(ns, n.id, {}) ELSE {}

\* Every cycle of effective parents has the warning on one of its rules, and
\* only a rule on a cycle has it
CycleIsWarned ==
    \A i \in DOMAIN nodes :
        /\ OnEffectiveParentCycle(nodes, nodes[i])
              => \E j \in DOMAIN nodes :
                    /\ nodes[j].id \in CycleThrough(nodes, nodes[i])
                    /\ CycleDetectedAt(nodes[j])
        /\ CycleDetectedAt(nodes[i]) => OnEffectiveParentCycle(nodes, nodes[i])

\* C20: where the chain of effective parents has a cycle, the contamination
\* pass records a DEP_WARNING on the rule at which it detects the cycle, and
\* after the pass that rule's final class is its local class.
CycleRuleKeepsLocalClass ==
    Contaminated =>
        /\ CycleIsWarned
        /\ \A i \in DOMAIN nodes :
              CycleDetectedAt(nodes[i])
                  => nodes[i].finalClass = nodes[i].localClass

\* What holds: the warning is recorded on a rule of every cycle
CycleBreakIsWarned == Contaminated => CycleIsWarned

\* What holds of the class: the rule at which the cycle is detected ends with
\* the highest local class on its cycle
CycleRuleTakesHighestClassOnCycle ==
    Contaminated =>
        \A i \in DOMAIN nodes :
            CycleDetectedAt(nodes[i]) =>
                /\ \A j \in DOMAIN nodes :
                      nodes[j].id \in CycleThrough(nodes, nodes[i])
                          => ClassRank(nodes[i].finalClass)
                                >= ClassRank(nodes[j].localClass)
                /\ \E j \in DOMAIN nodes :
                      /\ nodes[j].id \in CycleThrough(nodes, nodes[i])
                      /\ nodes[i].finalClass = nodes[j].localClass

\* A cycle was detected at a rule that is static by itself, beside a dynamic
\* rule on the same cycle
CycleDetectedAtLowerRule ==
    /\ Contaminated
    /\ \E i, j \in DOMAIN nodes :
          /\ CycleDetectedAt(nodes[i])
          /\ nodes[j].id \in CycleThrough(nodes, nodes[i])
          /\ ClassRank(nodes[j].localClass) > ClassRank(nodes[i].localClass)

----------------------------------------------------------------------------
(* Termination of the analysis *)

\* Every dynamic rule carries a boundary_id once analyseCSS has returned
DynamicRulesHaveBoundary ==
    Analysed =>
        \A i \in DOMAIN nodes : Dynamic(nodes[i]) => nodes[i].boundaryId # Null

\* C21: analyseCSS returns for every rule graph, also when portal
\* declarations make the chain of effective parents cyclic: the contamination
\* pass and the boundary pass finish, and every dynamic rule ends with a
\* boundary_id.
AnalysisAlwaysReturns ==
    /\ pc # "crashed"
    /\ DynamicRulesHaveBoundary

\* What holds: the contamination pass finishes on every rule graph, and the
\* boundary pass finishes unless a cycle of effective parents has dynamic
\* rules only
BoundaryPassFailsOnDynamicCycleOnly ==
    pc = "crashed" =>
        \E i \in DOMAIN nodes :
            /\ OnEffectiveParentCycle(nodes, nodes[i])
            /\ \A j \in DOMAIN nodes :
                  nodes[j].id \in EffectiveAncestors(nodes, nodes[i].id, {})
                      => Dynamic(nodes[j])

\* An analysis that returned for a stylesheet with a cycle of effective
\* parents
ReturnedDespiteCycle ==
    /\ Analysed
    /\ \E i \in DOMAIN nodes : OnEffectiveParentCycle(nodes, nodes[i])
    /\ \E i \in DOMAIN nodes : Dynamic(nodes[i])

----------------------------------------------------------------------------
(* The dependency entries of an emitted boundary record *)

\* The manifests of the boundary whose selector was looked up last
ManifestsAsked ==
    {k \in DOMAIN manifests :
        NodeById(nodes, manifests[k].componentId).selector = result.asked}

\* getDynamic handed back a BOUNDARY_MARKER record
BoundaryRecordReturned ==
    /\ pc = "loaded"
    /\ result.via = "getDynamic"
    /\ result.found
    /\ result.record.recordType = "BOUNDARY_MARKER"

\* The record has a dependency entry for a manifest entry
RecordCarries(rec, entry) ==
    \E d \in DOMAIN rec.depEntries :
        /\ rec.depEntries[d].depType = DEP_TYPE_CODE(entry.depType)
        /\ rec.depEntries[d].propertyName = entry.property

\* C22: the BOUNDARY_MARKER record of a boundary carries a dependency entry
\* for every runtime dependency listed in the boundary's manifest, those of
\* the members of its subgraph included.
BoundaryRecordCoversManifest ==
    BoundaryRecordReturned =>
        \A k \in ManifestsAsked : \A e \in DOMAIN manifests[k].entries :
            RecordCarries(result.record, manifests[k].entries[e])

\* What holds: the record carries the manifest entries that belong to the
\* boundary rule itself
BoundaryRecordCoversOwnEntries ==
    BoundaryRecordReturned =>
        \A k \in ManifestsAsked : \A e \in DOMAIN manifests[k].entries :
            manifests[k].entries[e].componentId = manifests[k].componentId
                => RecordCarries(result.record, manifests[k].entries[e])

\* The record of a boundary whose manifest lists a dependency of another
\* member of its subgraph
BoundaryWithMemberDependency ==
    /\ BoundaryRecordReturned
    /\ \E k \in ManifestsAsked : \E e \in DOMAIN manifests[k].entries :
          manifests[k].entries[e].componentId # manifests[k].componentId

----------------------------------------------------------------------------
(* Container hashes in emitted boundary records *)

ContainerType == <<99, 111, 110, 116, 97, 105, 110, 101, 114, 45, 116, 121, 112, 101>>

FontSize == <<102, 111, 110, 116, 45, 115, 105, 122, 101>>

\* Stylesheets with containers named by one class and by a descendant
\* selector, and container units under them and under none
ContainerRules ==
    { Rule(<<46, 97>>, <<Decl(ContainerType, InlineSize), Decl(Color, White)>>),
      Rule(<<46, 97, 32, 46, 98>>, <<Decl(FontSize, MaxFont)>>),
      Rule(<<46, 120, 32, 46, 97>>, <<Decl(ContainerType, InlineSize), Decl(Color, White)>>),
      Rule(<<46, 120, 32, 46, 97, 32, 46, 98>>, <<Decl(FontSize, MaxFont)>>),
      Rule(<<46, 98>>, <<Decl(FontSize, MaxFont)>>),
      Rule(<<46, 98>>, <<Decl(Color, White)>>) }

InitContainer ==
    /\ css \in Stylesheets(ContainerRules)
    /\ pc = "parsed"
    /\ nodes = <<>>
    /\ manifests = <<>>
    /\ pool = NewPool
    /\ otherPool = NewPool
    /\ binary = <<>>
    /\ loader = NoLoader
    /\ result = NoResult
    /\ heap = NoHeap
    /\ NoClient

SpecContainer == InitContainer /\ [][NextCodec]_vars

\* The rule whose selector was looked up last
RuleAsked == nodes[CHOOSE i \in DOMAIN nodes : nodes[i].selector = result.asked]

\* The hash of the selector of the nearest container among the tree
\* ancestors of a rule, zero when there is none
NearestContainerSelectorHash(n) ==
    LET container == nearestContainerId(nodes, n)
    IN  IF container = Null THEN U32(0, 0)
        ELSE fnv1a32(NodeById(nodes, container).selector)

\* C23: in an emitted boundary record every CONTAINER_SIZE dependency entry
\* has as container_hash the hash of the selector of the nearest container
\* tree ancestor of the dependency's owner, and zero when there is none.
ContainerHashIsSelectorHash ==
    BoundaryRecordReturned =>
        \A d \in DOMAIN result.record.depEntries :
            result.record.depEntries[d].depType = 6 =>
                result.record.depEntries[d].containerHash
                    = NearestContainerSelectorHash(RuleAsked)

\* What holds: container_hash is the hash of the node id of that container,
\* and zero when there is none
ContainerHashIsNodeIdHash ==
    BoundaryRecordReturned =>
        \A d \in DOMAIN result.record.depEntries :
            result.record.depEntries[d].depType = 6 =>
                result.record.depEntries[d].containerHash
                    = IF nearestContainerId(nodes, RuleAsked) = Null THEN U32(0, 0)
                      ELSE fnv1a32(nearestContainerId(nodes, RuleAsked))

\* A boundary record with a CONTAINER_SIZE entry under a container
ContainerEntryUnderContainer ==
    /\ BoundaryRecordReturned
    /\ \E d \in DOMAIN result.record.depEntries :
          /\ result.record.depEntries[d].depType = 6
          /\ result.record.depEntries[d].containerHash # U32(0, 0)

\* A boundary record with a CONTAINER_SIZE entry under no container
ContainerEntryUnderNone ==
    /\ BoundaryRecordReturned
    /\ \E d \in DOMAIN result.record.depEntries :
          /\ result.record.depEntries[d].depType = 6
          /\ result.record.depEntries[d].containerHash = U32(0, 0)

----------------------------------------------------------------------------
(* A pool section whose header declares another size than its entries take,
   read by the Node reader and by the browser loader *)

\* TextDecoder.decode(buf.slice(start, end)): slice keeps to the buffer, the
\* decoder drops a leading byte order mark
BrowserUtf8(buf, start, end) ==
    LET decoded == Utf8Decode(SubSeq(buf, start + 1, Min2(end, Len(buf))))
    IN  IF decoded # <<>> /\ Head(decoded) = 65279 THEN Tail(decoded) ELSE decoded

\* The loop of SOMLoaderBrowser.parsePool; ok is FALSE where the DataView
\* throws RangeError. pool[idx] is assigned whatever idx is.
RECURSIVE BrowserPoolEntries(_, _, _, _, _)
BrowserPoolEntries(buf, p, i, count, table) ==
    IF i >= count THEN [ok |-> TRUE, pool |-> table, p |-> p]
    ELSE IF ~InBuffer(buf, p, 5) THEN [ok |-> FALSE, pool |-> table, p |-> p]
    ELSE LET idx == readUInt24LE(buf, p)
             byteLen == readUInt16LE(buf, p + 3)
         IN  BrowserPoolEntries(buf, p + 5 + byteLen, i + 1, count,
                 MapSet(table, idx, BrowserUtf8(buf, p + 5, p + 5 + byteLen)))

\* SOMLoaderBrowser.parsePool(pos): next is the position it returns
parsePool(buf, pos) ==
    LET failed == [via |-> "parsePool", ok |-> FALSE, pool |-> <<>>, next |-> 0]
    IN  IF ~InBuffer(buf, pos, 4) THEN failed
        ELSE IF SubSeq(buf, pos + 1, pos + 4) # <<83, 79, 77, 80>> THEN failed
        ELSE IF ~InBuffer(buf, pos + 4, 1) \/ readUInt8(buf, pos + 4) # 1 THEN failed
        ELSE IF ~InBuffer(buf, pos + 8, 8) THEN failed
        ELSE LET count == NumberOf(readUInt32LE(buf, pos + 8))
                 dataSize == NumberOf(readUInt32LE(buf, pos + 12))
                 read == BrowserPoolEntries(buf, pos + 16, 0, count, <<>>)
             IN  IF ~read.ok THEN failed
                 ELSE [via |-> "parsePool", ok |-> TRUE, pool |-> read.pool,
                       next |-> pos + 16 + dataSize]

\* Bytes added behind the entries of a section
MaxPadding == 2

\* The sizes a header is made to declare for entries that take `taken` bytes
\* followed by `padding` bytes
DeclaredSizes(taken, padding) ==
    {n \in {0, taken - 1, taken, taken + 1, taken + padding} : n >= 0}

\* The section with its data size declared anew and bytes added behind it
Redeclared(buf, declared, padding) ==
    SubSeq(buf, 1, 12) \o U32LEn(declared) \o SubSeq(buf, 17, Len(buf))
    \o [k \in 1..padding |-> 0]

\* A serialised pool gets another declared data size, with or without bytes
\* behind its entries
Redeclare ==
    /\ pc = "pools"
    /\ binary # <<>>
    /\ intact = <<>>
    /\ \E padding \in 0..MaxPadding :
          \E declared \in DeclaredSizes(Len(binary) - 16, padding) :
              binary' = Redeclared(binary, declared, padding)
    /\ intact' = binary
    /\ reader' = NoReader
    /\ result' = NoResult
    /\ UNCHANGED <<css, heap, pc, nodes, manifests, pool, otherPool, loader, hashes,
                   parser, manager, runtime, fallback, plugin>>

\* new PoolReader(buf) over the section as it is now
ReadNode ==
    /\ pc = "pools"
    /\ intact # <<>>
    /\ reader' = PoolReader(binary, 0)
    /\ UNCHANGED <<css, heap, pc, nodes, manifests, pool, otherPool, binary, loader,
                   result, hashes, intact, parser, manager, runtime, fallback, plugin>>

\* parsePool over the section as it is now
ReadBrowser ==
    /\ pc = "pools"
    /\ intact # <<>>
    /\ result' = parsePool(binary, 0)
    /\ UNCHANGED <<css, heap, pc, nodes, manifests, pool, otherPool, binary, loader,
                   reader, hashes, intact, parser, manager, runtime, fallback, plugin>>

\* The pool is serialised once
SerialiseOnce == binary = <<>> /\ Serialise

NextSection == Intern \/ SerialiseOnce \/ Redeclare \/ ReadNode \/ ReadBrowser

SpecSection == InitPool /\ [][NextSection]_vars

\* The position behind the last of `count` entries that start at pos, -1
\* where the buffer ends before them
RECURSIVE EntriesEnd(_, _, _)
EntriesEnd(buf, pos, count) ==
    IF count = 0 THEN pos
    ELSE IF ~InBuffer(buf, pos, 5) THEN -1
    ELSE IF ~InBuffer(buf, pos + 5, readUInt16LE(buf, pos + 3)) THEN -1
    ELSE EntriesEnd(buf, pos + 5 + readUInt16LE(buf, pos + 3), count - 1)

\* The section holds entry_count entries and they take the declared data size
ExactSection(buf) ==
    /\ Len(buf) >= 16
    /\ EntriesEnd(buf, 16, NumberOf(readUInt32LE(buf, 8)))
          = 16 + NumberOf(readUInt32LE(buf, 12))

\* C24: a pool section is accepted only if it holds exactly entry_count
\* entries and they occupy exactly the declared data size, by the Node reader
\* and by the browser loader alike.
PoolSectionAcceptedOnlyIfExact ==
    /\ reader.ok => ExactSection(binary)
    /\ (result.via = "parsePool" /\ result.ok) => ExactSection(binary)

\* What holds of the Node reader: an accepted section has its entry_count
\* entries and its declared data size within the buffer
NodeReaderAcceptsOnlyWithinBuffer ==
    reader.ok =>
        /\ EntriesEnd(binary, 16, NumberOf(readUInt32LE(binary, 8))) # -1
        /\ 16 + NumberOf(readUInt32LE(binary, 12)) <= Len(binary)

\* Both readers have read a section that is not as the compiler wrote it
RedeclaredSectionRead ==
    /\ intact # <<>>
    /\ binary # intact
    /\ result.via = "parsePool"
    /\ reader # NoReader
    /\ Len(binary) > 16

----------------------------------------------------------------------------
(* Rules under @media blocks: a text enclosed in blocks, layer by layer *)

\* b:c;
DeclarationPiece == <<98, 58, 99, 59>>

\* @media m and @media n
MediaM == <<64, 109, 101, 100, 105, 97, 32, 109>>
MediaN == <<64, 109, 101, 100, 105, 97, 32, 110>>

\* The blocks a text is enclosed in
MaxEnclosures == 3

\* The author writes a rule, or a declaration where the text is empty
WritePiece ==
    /\ pc = "parsing"
    /\ parser.stage = "writing"
    /\ parser.written < MaxPieces
    /\ parser.others = 0
    /\ \E piece \in WellFormedPieces \cup {DeclarationPiece} :
          /\ piece = DeclarationPiece => parser.source = <<>>
          /\ piece # DeclarationPiece => (parser.source = <<>> \/ parser.hasBlock)
          /\ parser' = [parser EXCEPT
                 !.source = @ \o piece,
                 !.written = @ + 1,
                 !.hasBlock = piece # DeclarationPiece]
    /\ parseUnchanged

\* The author encloses the text in a style block or in an @media block.
\* media is the conditions of the @media blocks around the declarations,
\* outermost first; kept is those among them that lie inside the innermost
\* style block; sealed: a style block lies inside another.
Enclose ==
    /\ pc = "parsing"
    /\ parser.stage = "writing"
    /\ parser.source # <<>>
    /\ parser.others < MaxEnclosures
    /\ \E prelude \in {PlainPrelude, MediaM, MediaN} :
          parser' = [parser EXCEPT
              !.source = prelude \o <<123>> \o @ \o <<125>>,
              !.others = @ + 1,
              !.media = IF prelude = PlainPrelude THEN @
                        ELSE <<parseAtRulePrelude(prelude).condition>> \o @,
              !.kept = IF prelude = PlainPrelude \/ parser.hasBlock THEN @
                       ELSE <<parseAtRulePrelude(prelude).condition>> \o @,
              !.sealed = @ \/ (prelude = PlainPrelude /\ parser.hasBlock),
              !.hasBlock = @ \/ prelude = PlainPrelude]
    /\ parseUnchanged

NextMedia == WritePiece \/ Enclose \/ ParseCSS

SpecMedia == InitParse /\ [][NextMedia]_vars

\* Conditions joined with " and ", null where there is none
RECURSIVE JoinedWithAnd(_)
JoinedWithAnd(conditions) ==
    IF conditions = <<>> THEN Null
    ELSE IF Len(conditions) = 1 THEN conditions[1]
    ELSE conditions[1] \o <<32, 97, 110, 100, 32>> \o JoinedWithAnd(Tail(conditions))

\* C25: every rule produced from inside @media blocks, at any depth and also
\* from nested selectors and from @media inside a style block, has as
\* media_query the conditions of all enclosing @media blocks joined with
\* " and ".
RulesCarryEnclosingMedia ==
    parser.stage = "parsed" =>
        \A k \in DOMAIN parser.rules :
            parser.rules[k].mediaQuery = JoinedWithAnd(parser.media)

\* What holds: where a style block lies inside another, a rule carries the
\* conditions of the @media blocks inside its own style block only
RulesCarryMediaInsideNestingBlocks ==
    parser.stage = "parsed" =>
        \A k \in DOMAIN parser.rules :
            parser.rules[k].mediaQuery
                = JoinedWithAnd(IF parser.sealed THEN parser.kept ELSE parser.media)

\* What holds: with no style block nested in another, every rule carries all
\* enclosing conditions
RulesCarryEnclosingMediaUnnested ==
    (parser.stage = "parsed" /\ ~parser.sealed) =>
        \A k \in DOMAIN parser.rules :
            parser.rules[k].mediaQuery = JoinedWithAnd(parser.media)

\* Rules parsed under two @media blocks, one of them inside a style block
RulesUnderTwoMediaBlocks ==
    /\ parser.stage = "parsed"
    /\ ~parser.sealed
    /\ parser.hasBlock
    /\ Len(parser.media) = 2
    /\ parser.rules # <<>>
    /\ StartsWith(parser.source, MediaM)

\* Rules of a nested selector parsed under an @media block
NestedSelectorUnderMedia ==
    /\ parser.stage = "parsed"
    /\ parser.sealed
    /\ parser.media # parser.kept
    /\ parser.rules # <<>>

\* ---------------------------------------------------------------------
\* Containers observed against the elements that are mounted
\* ---------------------------------------------------------------------

\* The elements mounted now: the members of the element registry
MountedElements == UNION {manager.elementRegistry[h] : h \in Boundaries}

\* The containers the size dependencies of one mounted element resolve to:
\* its parent and itself for PARENT_SIZE, the resolved container for
\* CONTAINER (mount, the PARENT_SIZE and CONTAINER branches)
SizeContainersOf(element) ==
    UNION {IF DepEntriesOf(BoundaryOf(element))[k][1] = PARENT_SIZE
           THEN {parentElement(element), element}
           ELSE IF DepEntriesOf(BoundaryOf(element))[k][1] = CONTAINER
           THEN {parentElement(element)}
           ELSE {} : k \in 1..Len(DepEntriesOf(BoundaryOf(element)))}

\* The containers of the page other than the root element, which the
\* VIEWPORT dependency observes
PageContainers == Elements \cup {"parent"}

\* C26: after any sequence of mount and unmount calls a container is
\* observed by the resize observer if and only if some element mounted now
\* has a PARENT_SIZE or CONTAINER dependency resolved to it, so that
\* unmounting an element releases the containers observed for it alone
\* while other elements of its boundary stay mounted.
ObservedIffMountedElementDepends ==
    \A container \in PageContainers :
        container \in manager.observed
            <=> \E element \in MountedElements :
                    container \in SizeContainersOf(element)

\* What holds instead: the containers are kept per boundary, and a
\* container is observed if and only if a boundary with a mounted element
\* has subscribed to it since the boundary was last empty.
ObservedIffMountedBoundarySubscribed ==
    \A container \in PageContainers \cup {"documentElement"} :
        container \in manager.observed
            <=> \E h \in Boundaries :
                    /\ manager.elementRegistry[h] # {}
                    /\ container \in manager.boundaryToContainers[h]

\* Every container a mounted element depends on is observed.
MountedElementContainersObserved ==
    \A element \in MountedElements :
        SizeContainersOf(element) \subseteq manager.observed

\* An element was unmounted while another element of its boundary stays
\* mounted, and the resize observer still observes it.
UnmountedElementStillObserved ==
    /\ "a1" \notin MountedElements
    /\ "a2" \in MountedElements
    /\ "a1" \in manager.observed

\* ---------------------------------------------------------------------
\* Dirty boundaries and the pending frame
\* ---------------------------------------------------------------------

\* destroy(): observers and handlers are torn down, the pending frame is
\* cancelled (cancelAnimationFrame takes the callback off the page's
\* queue), and every registry, the dirty set included, is cleared
destroy(m) ==
    [NewManager EXCEPT
        !.page = m.page,
        !.rafQueue = IF m.pendingFrame # 0 THEN m.rafQueue - 1 ELSE m.rafQueue,
        !.fontSize = m.fontSize,
        !.invalidated = m.invalidated,
        !.last = m.last,
        !.reacted = m.reacted,
        !.events = m.events,
        !.batched = m.batched,
        !.found = m.found]

\* markDirty(hash), called by the host for any boundary hash
MarkDirty ==
    /\ pc = "page"
    /\ \E h \in Boundaries : manager' = markDirty(Counted(manager), h)
    /\ managerUnchanged

\* flush(), called by the host
Flush ==
    /\ pc = "page"
    /\ \E reaction \in Reactions :
          manager' = flush([manager EXCEPT
                               !.invalidated = <<>>,
                               !.last = "flush",
                               !.reacted = \E k \in DOMAIN manager.dirtyBoundaries :
                                              manager.dirtyBoundaries[k] = reaction.on],
                           reaction)
    /\ managerUnchanged

\* destroy(), called by the host
Destroy ==
    /\ pc = "page"
    /\ manager' = destroy(manager)
    /\ managerUnchanged

\* The host's calls, the dependency events that reach markDirty and
\* markDirtyAll, and the frames of the page
NextFrames ==
    \/ Mount
    \/ Unmount
    \/ MarkDirty
    \/ Resize
    \/ MatchMediaChange
    \/ UpdateTheme
    \/ Flush
    \/ RunFrame
    \/ Destroy

\* A page of one element for each boundary
FramePage == {"a1", "b1"}

InitFrames ==
    /\ NoPipeline
    /\ pc = "page"
    /\ reader = NoReader
    /\ hashes = NoHashes
    /\ intact = <<>>
    /\ parser = NoParser
    /\ runtime = NoRuntime
    /\ fallback = NoFallback
    /\ plugin = NoPlugin
    /\ manager = [NewManager EXCEPT !.page = FramePage]

SpecFrames == InitFrames /\ [][NextFrames]_vars

\* The page runs a requested animation frame callback in the end
SpecFramesFair == SpecFrames /\ WF_vars(RunFrame)

IsDirty(h) == \E k \in DOMAIN manager.dirtyBoundaries : manager.dirtyBoundaries[k] = h

\* A frame callback is pending: the manager holds its handle and the page
\* has it in its queue
FramePending == manager.pendingFrame # 0 /\ manager.rafQueue > 0

\* destroy() empties the dirty set, and a manager used again after it
\* schedules as a new one does, so that no state needs excepting
DirtyHasFramePending ==
    manager.dirtyBoundaries # <<>> => FramePending

\* A boundary leaves the dirty set only invalidated, unmounted or with the
\* manager destroyed
DirtyLeavesInvalidated ==
    \A h \in Boundaries :
        (IsDirty(h) /\ ~IsDirty(h)') =>
            \/ /\ manager'.last \in {"frame", "updateTheme", "flush"}
               /\ \E k \in DOMAIN manager'.invalidated : manager'.invalidated[k].hash = h
            \/ manager'.elementRegistry[h] = {}
            \/ manager' = destroy(manager)

\* C27: whenever the dirty set is non-empty and the manager has not been
\* destroyed a frame callback is pending, and every boundary marked dirty
\* is in the end invalidated when that frame runs, unless it is unmounted
\* (or the manager destroyed) first, for every interleaving of markDirty,
\* dependency events, updateTheme, flush and frame callbacks.
DirtyIsEventuallyInvalidated ==
    /\ []DirtyHasFramePending
    /\ [][DirtyLeavesInvalidated]_vars
    /\ \A h \in Boundaries : IsDirty(h) ~> ~IsDirty(h)

\* After a frame ran, a boundary marked dirty again has a new frame pending
DirtyAgainAfterFrame ==
    /\ manager.last = "frame"
    /\ manager.invalidated # <<>>
    /\ manager.dirtyBoundaries # <<>>
    /\ FramePending

\* ---------------------------------------------------------------------
\* unmountElement after applyStyles calls with several selectors
\* ---------------------------------------------------------------------

\* unmountElement(element): subscriptionManager.unmount(hash, element)
\* takes the element out of the registry of the one hash
\* mountedHashByElement holds for it
unmountElement(rt, element) ==
    IF rt.mountedHashByElement[element] = "undefined" THEN rt
    ELSE [rt EXCEPT
             !.elementRegistry[rt.mountedHashByElement[element]] = @ \ {element},
             !.mountedHashByElement[element] = "undefined",
             !.unmounted = element]

\* The elements the host applies selectors of its own choice to
RestyledElements == {"btnEl", "cardEl"}

\* runtime.applyStyles(selector, element) with any selector, as after the
\* data-som attribute of the element changed
ApplyStylesTo ==
    /\ pc = "runtime"
    /\ \E element \in RestyledElements, selector \in RuntimeSelectors \cup {".ghost"} :
          runtime' = [applyStyles(runtime, selector, element) EXCEPT !.unmounted = "none"]
    /\ runtimeUnchanged

\* runtime.unmountElement(element)
UnmountElement ==
    /\ pc = "runtime"
    /\ \E element \in RestyledElements :
          runtime' = unmountElement([runtime EXCEPT !.unmounted = element], element)
    /\ runtimeUnchanged

NextMounts ==
    \/ ApplyStylesTo
    \/ UnmountElement
    \/ LinkLoads
    \/ LinkFails

SpecMounts == InitRuntime /\ [][NextMounts]_vars

\* The selectors whose registry holds the element
RegisteredUnder(element) ==
    {s \in RuntimeSelectors : element \in runtime.elementRegistry[s]}

\* C28: after runtime.unmountElement(e) the element e is registered and
\* mounted under no selector hash in the subscription manager, whatever
\* applyStyles calls were made on e before, calls with different selectors
\* included.
UnmountedElementIsRegisteredNowhere ==
    runtime.unmounted # "none" => RegisteredUnder(runtime.unmounted) = {}

\* What holds instead: after unmountElement(e) the element is out of the
\* registry of the selector applied to it last, and mountedHashByElement
\* has no entry for it.
UnmountedElementLeavesLastSelector ==
    runtime.unmounted # "none" =>
        runtime.mountedHashByElement[runtime.unmounted] = "undefined"

\* While unmountElement has not run since, an element is registered under
\* the selector mountedHashByElement holds for it.
MountedHashIsRegistered ==
    \A element \in RestyledElements :
        runtime.mountedHashByElement[element] # "undefined" =>
            element \in runtime.elementRegistry[runtime.mountedHashByElement[element]]

\* An element was unmounted and is still registered under a selector
UnmountedElementStillRegistered ==
    /\ runtime.unmounted = "btnEl"
    /\ RegisteredUnder("btnEl") # {}

\* ---------------------------------------------------------------------
\* The indices of a finalised pool
\* ---------------------------------------------------------------------

\* ref gives the strings of the builder the indices 0 .. size - 1, each once
IndicesAreExact(p) ==
    /\ \A str \in Interned(p) : ref(p, str) \in 0..(Len(p.strings) - 1)
    /\ \A str \in Interned(p), other \in Interned(p) :
           ref(p, str) = ref(p, other) => str = other

\* C29: once a pool has been finalised, after any further intern, finalise,
\* ref and serialise calls every interned string has an index in
\* 0 .. size - 1, no two strings share an index, and ref returns no negative
\* or out-of-range index for an interned string.
FinalisedPoolIndicesExact ==
    (pc = "pools" /\ pool.finalised) => IndicesAreExact(pool)

\* What holds instead: the indices are exact while every string of the
\* pool was interned before finalise() ran.
FinalisedPoolIndicesExactIfInternedBefore ==
    (pc = "pools" /\ FinalisedAfterInterning(pool)) => IndicesAreExact(pool)

\* A string interned after finalise() keeps the index -1, which ref returns.
InternedAfterFinaliseIsUnindexed ==
    (pc = "pools" /\ pool.finalised) =>
        \A i \in DOMAIN pool.strings :
            pool.strings[i].idx \in {-1} \cup (0..(Len(pool.strings) - 1))

\* A finalised pool holds a string interned before finalise() and one
\* interned after it
InternedAfterFinalise ==
    /\ pc = "pools"
    /\ pool.finalised
    /\ \E i \in DOMAIN pool.strings : pool.strings[i].idx = -1
    /\ \E i \in DOMAIN pool.strings : pool.strings[i].idx = 0

----------------------------------------------------------------------------
(* vite-plugin-binary-som: the modules a build collects and emits *)

\* The module ids the bundler hands to transform: two stylesheets, one of
\* them also asked for with a query, and a script
ModuleIds ==
    {[path |-> "a.css", query |-> ""], [path |-> "a.css", query |-> "?inline"],
     [path |-> "b.css", query |-> ""], [path |-> "main.js", query |-> ""]}

\* The files of the project
ModulePaths == {id.path : id \in ModuleIds}

\* What a stylesheet may hold when it is transformed: the selectors of its
\* rules
ModuleCodes == {<<".layout">>, <<".btn", ".card">>}

\* id.replace(/\?.*$/, '')
cleanId(id) == id.path

\* shouldProcess(id) with no include and exclude patterns: CSS_RE
shouldProcess(id) == id.path \in {"a.css", "b.css"}

\* Nothing has been emitted into the bundle of the build
NoAssets == [done |-> FALSE, sources |-> <<>>, rules |-> <<>>, transformed |-> <<>>]

\* binarySomPlugin(options): cssModules holds <<>> for an id that is no key
\* of the map. assets is the bundle of the running build as far as the
\* plugin wrote it; since holds the code of every module transformed since
\* the most recent buildStart, and earlier the modules collected by the
\* builds before it.
NewPlugin ==
    [stage |-> "created",
     isProduction |-> FALSE,
     cssModules |-> [path \in ModulePaths |-> <<>>],
     assets |-> NoAssets,
     since |-> [path \in ModulePaths |-> <<>>],
     earlier |-> {}]

\* configResolved(config)
configResolved(pl, command) ==
    [pl EXCEPT !.stage = "configured", !.isProduction = (command = "build")]

\* The modules a map holds, as pairs of id and code
Collected(modules) ==
    {[id |-> path, raw |-> modules[path]] : path \in {q \in ModulePaths : modules[q] # <<>>}}

\* buildStart without the new Map
buildStartKeeping(pl) ==
    [pl EXCEPT !.assets = NoAssets,
               !.since = [path \in ModulePaths |-> <<>>],
               !.earlier = @ \cup Collected(pl.cssModules)]

\* buildStart(): cssModules = new Map(); the build starts with an empty
\* bundle
buildStart(pl) ==
    [pl EXCEPT !.cssModules = [path \in ModulePaths |-> <<>>],
               !.assets = NoAssets,
               !.since = [path \in ModulePaths |-> <<>>],
               !.earlier = @ \cup Collected(pl.cssModules)]

\* transform(code, id)
transform(pl, code, id) ==
    IF ~shouldProcess(id) THEN pl
    ELSE [pl EXCEPT !.cssModules[cleanId(id)] = code,
                    !.since[cleanId(id)] = code]

\* handleHotUpdate(ctx)
handleHotUpdate(pl, file) ==
    IF pl.cssModules[cleanId(file)] # <<>>
    THEN [pl EXCEPT !.cssModules[cleanId(file)] = <<>>]
    ELSE pl

\* The files of the project as a.id.localeCompare(b.id) orders them
ModuleOrder == <<"a.css", "b.css", "main.js">>

\* sortedModules: the values of cssModules sorted by id
sortedModules(modules) ==
    With(SelectSeq(ModuleOrder, LAMBDA path : modules[path] # <<>>), LAMBDA kept :
        [k \in DOMAIN kept |-> [id |-> kept[k], raw |-> modules[kept[k]]]])

\* generateBundle(outputOptions, bundle): the combined source is the code
\* of the sorted modules joined, and the binary, the fallback and the
\* summary are computed from its rules and from sortedModules
generateBundle(pl) ==
    IF ~pl.isProduction THEN pl
    ELSE IF Collected(pl.cssModules) = {} THEN pl
    ELSE With(sortedModules(pl.cssModules), LAMBDA sorted :
            [pl EXCEPT !.assets =
                [done |-> TRUE,
                 sources |-> sorted,
                 rules |-> Concat([k \in DOMAIN sorted |-> sorted[k].raw]),
                 transformed |-> pl.since]])

InitPlugin ==
    /\ NoPipeline
    /\ pc = "plugin"
    /\ reader = NoReader
    /\ hashes = NoHashes
    /\ intact = <<>>
    /\ parser = NoParser
    /\ manager = NoManager
    /\ runtime = NoRuntime
    /\ fallback = NoFallback
    /\ plugin = NewPlugin

pluginUnchanged ==
    UNCHANGED <<css, pc, nodes, manifests, codecVars, reader, hashes, intact,
                parser, manager, runtime, fallback>>

\* Vite resolves its configuration, once, before any build
ConfigResolved ==
    /\ pc = "plugin"
    /\ plugin.stage = "created"
    /\ \E command \in {"build", "serve"} : plugin' = configResolved(plugin, command)
    /\ pluginUnchanged

\* A build starts: the first, or a rebuild in watch mode
BuildStart ==
    /\ pc = "plugin"
    /\ plugin.stage = "configured"
    /\ plugin' = buildStart(plugin)
    /\ pluginUnchanged

\* The bundler transforms a module
Transform ==
    /\ pc = "plugin"
    /\ plugin.stage = "configured"
    /\ \E id \in ModuleIds, code \in ModuleCodes : plugin' = transform(plugin, code, id)
    /\ pluginUnchanged

\* A file changes under the dev server
HandleHotUpdate ==
    /\ pc = "plugin"
    /\ plugin.stage = "configured"
    /\ \E file \in ModuleIds : plugin' = handleHotUpdate(plugin, file)
    /\ pluginUnchanged

\* The bundle of the build is generated
GenerateBundle ==
    /\ pc = "plugin"
    /\ plugin.stage = "configured"
    /\ plugin' = generateBundle(plugin)
    /\ pluginUnchanged

NextPlugin ==
    \/ ConfigResolved
    \/ BuildStart
    \/ Transform
    \/ HandleHotUpdate
    \/ GenerateBundle

SpecPlugin == InitPlugin /\ [][NextPlugin]_vars

\* C30: the assets a build emits are computed only from the CSS modules
\* transformed since the most recent buildStart: every source of the
\* emitted bundle is a module transformed in this build, with the code it
\* was last transformed with, the rules are the rules of these sources, and
\* a module collected during an earlier build and not transformed again
\* contributes nothing.
AssetsFromCurrentBuildOnly ==
    (pc = "plugin" /\ plugin.assets.done) =>
        /\ \A k \in DOMAIN plugin.assets.sources :
               plugin.assets.transformed[plugin.assets.sources[k].id]
                   = plugin.assets.sources[k].raw
        /\ plugin.assets.rules
               = Concat([k \in DOMAIN plugin.assets.sources |->
                            plugin.assets.transformed[plugin.assets.sources[k].id]])
        /\ \A module \in plugin.earlier :
               plugin.assets.transformed[module.id] = <<>> =>
                   \A k \in DOMAIN plugin.assets.sources :
                       plugin.assets.sources[k].id # module.id

\* A later build emitted its assets without a module an earlier build had
\* collected
LaterBuildWithoutEarlierModule ==
    /\ pc = "plugin"
    /\ plugin.assets.done
    /\ \E module \in plugin.earlier :
          \A k \in DOMAIN plugin.assets.sources :
              plugin.assets.sources[k].id # module.id

============================================================================
